---- MODULE Spec2Model ----
(***************************************************************************)
(* LeaseLog rent ledger: leases, the rent schedule generator, the late-fee *)
(* evaluator, the payment recorder and the periodic payment tasks, as a    *)
(* state machine over the database tables.                                 *)
(*                                                                         *)
(* Money is an integer number of hundredths (the scale of every            *)
(* DecimalField(max_digits=10, decimal_places=2) column).  A date is a     *)
(* record [year, month, day] like datetime.date.                           *)
(***************************************************************************)
EXTENDS Integers, Sequences, FiniteSets, TLC

VARIABLES
    today,            \* timezone.now().date()
    leases,           \* table leases: id -> row
    rent_payments,    \* table rent_payments: id -> row
    payment_records,  \* table payment_records: id -> row
    transactions,     \* table transactions (the ledger): id -> row
    stripe_payments,  \* table stripe_payments: id -> row
    next_id,          \* primary keys handed out so far, per table (keys are never reused)
    requests,         \* the payment recordings in flight: worker -> its position and locals
    response,         \* the error code of the last HTTP response ("ok" for a success)
    tenants,          \* table tenants: id -> row
    units             \* table units: id -> row

vars == <<today, leases, rent_payments, payment_records, transactions,
          stripe_payments, next_id, requests, response, tenants, units>>

----------------------------------------------------------------------------
(* Bounds of the model *)

MaxLeases == 2          \* leases created in a run (by create or by renew)
MaxRecords == 2         \* PaymentRecord rows inserted
MaxIntents == 1         \* Stripe payment intents created
MaxDays == 2            \* days the clock advances
MaxRentPaymentIds == 8  \* RentPayment keys handed out in a run of SpecSchedule

----------------------------------------------------------------------------
(* datetime.date and dateutil.relativedelta *)

Date(y, m, d) == [year |-> y, month |-> m, day |-> d]

\* null=True date columns hold None
NoDate == [year |-> 0, month |-> 0, day |-> 0]

IsLeap(y) == (y % 4 = 0 /\ y % 100 # 0) \/ y % 400 = 0

DaysInMonth(y, m) ==
    IF m = 2 THEN (IF IsLeap(y) THEN 29 ELSE 28)
    ELSE IF m \in {4, 6, 9, 11} THEN 30 ELSE 31

DaysInYear(y) == IF IsLeap(y) THEN 366 ELSE 365

RECURSIVE DaysBeforeMonth(_, _)
DaysBeforeMonth(y, m) ==
    IF m = 1 THEN 0 ELSE DaysBeforeMonth(y, m - 1) + DaysInMonth(y, m - 1)

RECURSIVE DaysBeforeYear(_)
DaysBeforeYear(y) ==
    IF y <= 2024 THEN 0 ELSE DaysBeforeYear(y - 1) + DaysInYear(y - 1)

\* date.toordinal(), counted from the first day of 2024
Ordinal(dt) == DaysBeforeYear(dt.year) + DaysBeforeMonth(dt.year, dt.month) + dt.day

\* (a - b).days
DaysBetween(a, b) == Ordinal(a) - Ordinal(b)

DateLE(a, b) ==
    \/ a.year < b.year
    \/ a.year = b.year /\ a.month < b.month
    \/ a.year = b.year /\ a.month = b.month /\ a.day <= b.day

DateLT(a, b) == DateLE(a, b) /\ a # b

\* dt + timedelta(days=1)
NextDay(dt) ==
    IF dt.day < DaysInMonth(dt.year, dt.month) THEN Date(dt.year, dt.month, dt.day + 1)
    ELSE IF dt.month < 12 THEN Date(dt.year, dt.month + 1, 1)
    ELSE Date(dt.year + 1, 1, 1)

\* dt - timedelta(days=1)
PrevDay(dt) ==
    IF dt.day > 1 THEN Date(dt.year, dt.month, dt.day - 1)
    ELSE IF dt.month > 1 THEN Date(dt.year, dt.month - 1, DaysInMonth(dt.year, dt.month - 1))
    ELSE Date(dt.year - 1, 12, 31)

\* date.replace(day=d) raises ValueError when the month has no such day
ReplaceDayRaises(dt, d) == d < 1 \/ d > DaysInMonth(dt.year, dt.month)
ReplaceDay(dt, d) == Date(dt.year, dt.month, d)

Min(a, b) == IF a <= b THEN a ELSE b

\* dt + relativedelta(months=1): the next month, the day clamped to its length
AddOneMonth(dt) ==
    LET y == IF dt.month = 12 THEN dt.year + 1 ELSE dt.year
        m == IF dt.month = 12 THEN 1 ELSE dt.month + 1
    IN  Date(y, m, Min(dt.day, DaysInMonth(y, m)))

----------------------------------------------------------------------------
(* Tables *)

EmptyTable == << >>

Insert(table, id, row) == [k \in DOMAIN table \cup {id} |-> IF k = id THEN row ELSE table[k]]

Delete(table, ids) == [k \in DOMAIN table \ ids |-> table[k]]

\* unit = models.ForeignKey(..., null=True): the key that stands for None
NoUnit == 0

\* Lease(...) with the model defaults, before LeaseCreateSerializer.create sets the status
NewLease(in) ==
    [status |-> "draft", is_deleted |-> FALSE,
     owner |-> in.owner, tenant |-> in.tenant, unit |-> in.unit,
     start_date |-> in.start_date, end_date |-> in.end_date,
     rent_amount |-> in.rent_amount, rent_due_day |-> in.rent_due_day,
     security_deposit |-> in.security_deposit,
     security_deposit_paid |-> in.security_deposit_paid,
     late_fee_type |-> in.late_fee_type, late_fee_amount |-> in.late_fee_amount,
     late_fee_grace_days |-> in.late_fee_grace_days,
     renewal_term_months |-> in.renewal_term_months,
     terminated_date |-> NoDate, termination_reason |-> ""]

\* RentPayment(lease, due_date, amount_due, status) with the model defaults
NewRentPayment(l, due_date, amount_due) ==
    [lease |-> l, due_date |-> due_date, amount_due |-> amount_due,
     amount_paid |-> 0, status |-> "pending",
     late_fee_applied |-> 0, late_fee_waived |-> FALSE, late_fee_waived_reason |-> "",
     paid_date |-> NoDate]

----------------------------------------------------------------------------
(* Lease.generate_rent_schedule *)

\* a filter that forgets the lease
PendingRowsOfAnyLease(l, rows) == {k \in DOMAIN rows : rows[k].status = "pending"}

\* a filter that forgets the status
AllRowsOf(l, rows) == {k \in DOMAIN rows : rows[k].lease = l}

\* RentPayment.objects.filter(lease=self, status='pending'), the rows the run deletes
PendingRowsOf(l, rows) == {k \in DOMAIN rows : rows[k].lease = l /\ rows[k].status = "pending"}

\* the due date computed for the month of current_date
DueDateFor(lease, current_date) ==
    LET due_day == Min(lease.rent_due_day, 28)
    IN  IF ReplaceDayRaises(current_date, due_day)
        THEN ReplaceDay(current_date, 28)
        ELSE ReplaceDay(current_date, due_day)

\* a guard that forgets the start of the range
DueDateBeforeEnd(lease, due_date) == DateLE(due_date, lease.end_date)

\* the guard of get_or_create
DueDateInRange(lease, due_date) ==
    DateLE(lease.start_date, due_date) /\ DateLE(due_date, lease.end_date)

\* the guard of the while loop
WalkContinues(lease, current_date) == DateLE(current_date, lease.end_date)

\* a while loop that creates its row without looking for an existing one
RECURSIVE ScheduleWalkCreating(_, _, _, _)
ScheduleWalkCreating(l, lease, current_date, st) ==
    IF ~WalkContinues(lease, current_date) THEN st
    ELSE
        LET due_date == DueDateFor(lease, current_date)
            st2 == IF DueDateInRange(lease, due_date)
                   THEN [rows |-> Insert(st.rows, st.next,
                                         NewRentPayment(l, due_date, lease.rent_amount)),
                         next |-> st.next + 1]
                   ELSE st
        IN  ScheduleWalkCreating(l, lease, AddOneMonth(current_date), st2)

\* the while loop from current_date on; st = [rows, next]: the table and the next key
RECURSIVE ScheduleWalk(_, _, _, _)
ScheduleWalk(l, lease, current_date, st) ==
    IF ~WalkContinues(lease, current_date) THEN st
    ELSE
        LET due_date == DueDateFor(lease, current_date)
            exists == \E k \in DOMAIN st.rows :
                          st.rows[k].lease = l /\ st.rows[k].due_date = due_date
            st2 == IF DueDateInRange(lease, due_date) /\ ~exists
                   THEN [rows |-> Insert(st.rows, st.next,
                                         NewRentPayment(l, due_date, lease.rent_amount)),
                         next |-> st.next + 1]
                   ELSE st
        IN  ScheduleWalk(l, lease, AddOneMonth(current_date), st2)

\* the whole method, on lease row `lease` with key l: [rows, next, deleted]
GenerateRentSchedule(l, lease, rows, next) ==
    IF lease.status \notin {"active", "pending"}
    THEN [rows |-> rows, next |-> next, deleted |-> {}]
    ELSE
        LET gone == PendingRowsOf(l, rows)
            st == ScheduleWalk(l, lease, lease.start_date,
                               [rows |-> Delete(rows, gone), next |-> next])
        IN  [rows |-> st.rows, next |-> st.next, deleted |-> gone]

\* on_delete=CASCADE from RentPayment: payment_records and stripe_payments rows
CascadeDelete(table, gone) == Delete(table, {k \in DOMAIN table : table[k].rent_payment \in gone})

----------------------------------------------------------------------------
(* LeaseViewSet.create / LeaseCreateSerializer *)

\* LeaseCreateSerializer.validate
ValidateLease(in) ==
    IF DateLE(in.end_date, in.start_date) THEN "end_date"
    ELSE IF in.rent_due_day < 1 \/ in.rent_due_day > 28 THEN "rent_due_day"
    ELSE "ok"

\* a create that sets the status and leaves the schedule out
CreatedLeaseWithoutSchedule(in, now, ls, rps, l, n) ==
    LET active == DateLE(in.start_date, now)
        lease == [NewLease(in) EXCEPT !.status = IF active THEN "active" ELSE "pending"]
    IN  [leases |-> Insert(ls, l, lease), rows |-> rps, next |-> n]

\* LeaseCreateSerializer.create on the tables (ls, rps) with next keys l and n: the status
\* from the start date, and the schedule when the lease starts active
CreatedLease(in, now, ls, rps, l, n) ==
    LET active == DateLE(in.start_date, now)
        lease == [NewLease(in) EXCEPT !.status = IF active THEN "active" ELSE "pending"]
        gen == IF active
               THEN GenerateRentSchedule(l, lease, rps, n)
               ELSE [rows |-> rps, next |-> n, deleted |-> {}]
    IN  [leases |-> Insert(ls, l, lease), rows |-> gen.rows, next |-> gen.next]

\* POST /leases/
CreateLease(in) ==
    /\ next_id.lease <= MaxLeases
    /\ IF ValidateLease(in) # "ok"
       THEN /\ response' = "VALIDATION_ERROR"
            /\ UNCHANGED <<leases, rent_payments, next_id>>
       ELSE LET made == CreatedLease(in, today, leases, rent_payments,
                                     next_id.lease, next_id.rent_payment)
            IN  /\ leases' = made.leases
                /\ rent_payments' = made.rows
                /\ next_id' = [next_id EXCEPT !.lease = @ + 1, !.rent_payment = made.next]
                /\ response' = "ok"
    /\ UNCHANGED <<tenants, units, today, payment_records, transactions, stripe_payments, requests>>

\* a direct call of lease.generate_rent_schedule() on an existing lease
RunGenerateRentSchedule(l) ==
    /\ l \in DOMAIN leases
    /\ next_id.rent_payment <= MaxRentPaymentIds
    /\ LET gen == GenerateRentSchedule(l, leases[l], rent_payments, next_id.rent_payment)
       IN  /\ rent_payments' = gen.rows
           /\ payment_records' = CascadeDelete(payment_records, gen.deleted)
           /\ stripe_payments' = CascadeDelete(stripe_payments, gen.deleted)
           /\ next_id' = [next_id EXCEPT !.rent_payment = gen.next]
    /\ UNCHANGED response
    /\ UNCHANGED <<tenants, units, today, leases, transactions, requests>>

----------------------------------------------------------------------------
(* RentPayment: balance_due, apply_late_fee *)

\* RentPayment.balance_due
BalanceDue(rp) == rp.amount_due + rp.late_fee_applied - rp.amount_paid

\* n / q rounded to the nearest integer, ties to even: what storing a Decimal in a
\* decimal_places=2 column does to digits beyond the second place
Quantize(n, q) ==
    LET fl == IF n >= 0 THEN n \div q ELSE -((-n + q - 1) \div q)
        rem == n - fl * q
    IN  IF 2 * rem < q THEN fl
        ELSE IF 2 * rem > q THEN fl + 1
        ELSE IF fl % 2 = 0 THEN fl ELSE fl + 1

\* a guard that forgets the waiver
LateFeeSettledIgnoringWaiver(rp) == rp.late_fee_applied > 0

\* the guard of RentPayment.apply_late_fee: nothing to do
LateFeeSettled(rp) == rp.late_fee_applied > 0 \/ rp.late_fee_waived

\* a daily branch that forgets the grace period
DaysLateNoGrace(rp, lease, now) == DaysBetween(now, rp.due_date)

\* days_late of the daily branch
DaysLate(rp, lease, now) == DaysBetween(now, rp.due_date) - lease.late_fee_grace_days

\* the value RentPayment.apply_late_fee assigns, as the column then holds it.
\* amount_due and late_fee_amount are in hundredths, so amount_due * (late_fee_amount / 100)
\* is amount_due * late_fee_amount / 10000 hundredths.
LateFeeFor(rp, lease, now) ==
    IF lease.late_fee_type = "fixed" THEN lease.late_fee_amount
    ELSE IF lease.late_fee_type = "percent"
         THEN Quantize(rp.amount_due * lease.late_fee_amount, 10000)
    ELSE IF lease.late_fee_type = "daily" /\ DaysLate(rp, lease, now) > 0
         THEN lease.late_fee_amount * DaysLate(rp, lease, now)
    ELSE rp.late_fee_applied

\* RentPayment.apply_late_fee: the row after the call
ApplyLateFee(rp, lease, now) ==
    IF LateFeeSettled(rp) THEN rp
    ELSE [rp EXCEPT !.late_fee_applied = LateFeeFor(rp, lease, now)]

----------------------------------------------------------------------------
(* PaymentRecord.save *)

NewPaymentRecord(r, amount, payment_date, method) ==
    [rent_payment |-> r, amount |-> amount, payment_date |-> payment_date,
     payment_method |-> method, transaction |-> 0]

RECURSIVE SumAmounts(_, _)
SumAmounts(records, ids) ==
    IF ids = {} THEN 0
    ELSE LET k == CHOOSE x \in ids : TRUE
         IN  records[k].amount + SumAmounts(records, ids \ {k})

\* rent_payment.payment_records.all()
RecordsOf(records, r) == {k \in DOMAIN records : records[k].rent_payment = r}

\* sum(record.amount for record in rent_payment.payment_records.all())
TotalPaid(records, r) == SumAmounts(records, RecordsOf(records, r))

\* a status rule that adds the total to amount_paid instead of replacing it
RecomputeIncremental(rp, total_paid, payment_date) ==
    LET paid == rp.amount_paid + total_paid
    IN  IF paid >= rp.amount_due + rp.late_fee_applied
        THEN [rp EXCEPT !.amount_paid = paid, !.status = "paid", !.paid_date = payment_date]
        ELSE IF paid > 0
        THEN [rp EXCEPT !.amount_paid = paid, !.status = "partial"]
        ELSE [rp EXCEPT !.amount_paid = paid]

\* a status rule that takes an exactly covered row for a partial one
RecomputeStrict(rp, total_paid, payment_date) ==
    IF total_paid > rp.amount_due + rp.late_fee_applied
    THEN [rp EXCEPT !.amount_paid = total_paid, !.status = "paid", !.paid_date = payment_date]
    ELSE IF total_paid > 0
    THEN [rp EXCEPT !.amount_paid = total_paid, !.status = "partial"]
    ELSE [rp EXCEPT !.amount_paid = total_paid]

\* the status rule of PaymentRecord.save, on the RentPayment object the record holds
Recompute(rp, total_paid, payment_date) ==
    IF total_paid >= rp.amount_due + rp.late_fee_applied
    THEN [rp EXCEPT !.amount_paid = total_paid, !.status = "paid", !.paid_date = payment_date]
    ELSE IF total_paid > 0
    THEN [rp EXCEPT !.amount_paid = total_paid, !.status = "partial"]
    ELSE [rp EXCEPT !.amount_paid = total_paid]

\* Transaction.objects.create(type='income', ...)
NewTransaction(l, amount, date, method) ==
    [lease |-> l, type |-> "income", amount |-> amount, date |-> date,
     payment_method |-> method]

----------------------------------------------------------------------------
(* RentPaymentViewSet: get_queryset, record, apply_late_fee, waive_late_fee *)

\* RentPaymentViewSet.get_queryset / get_object
Visible(r) ==
    /\ r \in DOMAIN rent_payments
    /\ ~leases[rent_payments[r].lease].is_deleted

\* RecordPaymentSerializer: amount has min_value 0.01
ValidAmount(amount) == amount >= 1

\* POST /rent-payments/{id}/record, start to end with nothing in between
Record(r, amount, payment_date) ==
    /\ Visible(r)
    /\ next_id.payment_record <= MaxRecords
    /\ IF ~ValidAmount(amount)
       THEN /\ response' = "VALIDATION_ERROR"
            /\ UNCHANGED <<rent_payments, payment_records, transactions, next_id>>
       ELSE LET p == next_id.payment_record
                t == next_id.transaction
                rp0 == rent_payments[r]
                \* PaymentRecord.objects.create -> save
                recs1 == Insert(payment_records, p,
                                NewPaymentRecord(r, amount, payment_date, "other"))
                rp1 == Recompute(rp0, TotalPaid(recs1, r), payment_date)
                \* payment_record.transaction = transaction; payment_record.save()
                recs2 == [recs1 EXCEPT ![p].transaction = t]
                rp2 == Recompute(rp1, TotalPaid(recs2, r), payment_date)
            IN  /\ payment_records' = recs2
                /\ transactions' = Insert(transactions, t,
                                          NewTransaction(rp0.lease, amount, payment_date, "other"))
                /\ rent_payments' = [rent_payments EXCEPT ![r] = rp2]
                /\ next_id' = [next_id EXCEPT !.payment_record = p + 1, !.transaction = t + 1]
                /\ response' = "ok"
    /\ UNCHANGED <<tenants, units, today, leases, stripe_payments, requests>>

\* POST /rent-payments/{id}/apply_late_fee
ApplyLateFeeEndpoint(r) ==
    /\ Visible(r)
    /\ IF rent_payments[r].late_fee_applied > 0
       THEN /\ response' = "FEE_ALREADY_APPLIED"
            /\ UNCHANGED rent_payments
       ELSE /\ rent_payments' = [rent_payments EXCEPT ![r] =
                    ApplyLateFee(@, leases[@.lease], today)]
            /\ response' = "ok"
    /\ UNCHANGED <<tenants, units, today, leases, payment_records, transactions, stripe_payments,
                   next_id, requests>>

\* waive_late_fee that works the status out again after dropping the fee
WaiveLateFeeRecomputing(r, reason) ==
    /\ Visible(r)
    /\ rent_payments' = [rent_payments EXCEPT ![r] =
            Recompute([@ EXCEPT !.late_fee_waived = TRUE, !.late_fee_waived_reason = reason,
                                !.late_fee_applied = 0],
                      @.amount_paid, today)]
    /\ response' = "ok"
    /\ UNCHANGED <<tenants, units, today, leases, payment_records, transactions, stripe_payments,
                   next_id, requests>>

\* POST /rent-payments/{id}/waive_late_fee
WaiveLateFee(r, reason) ==
    /\ Visible(r)
    /\ rent_payments' = [rent_payments EXCEPT ![r] =
            [@ EXCEPT !.late_fee_waived = TRUE, !.late_fee_waived_reason = reason,
                      !.late_fee_applied = 0]]
    /\ response' = "ok"
    /\ UNCHANGED <<tenants, units, today, leases, payment_records, transactions, stripe_payments,
                   next_id, requests>>

----------------------------------------------------------------------------
(* payments/tasks.py: the periodic tasks *)

\* a lease filter without lease__is_deleted=False
LeaseActiveOrDeleted(l) == leases[l].status = "active"

LeaseActive(l) == leases[l].status = "active" /\ ~leases[l].is_deleted

\* the queryset of update_overdue_payment_status
OverdueCandidates ==
    {k \in DOMAIN rent_payments :
        /\ rent_payments[k].status = "pending"
        /\ DateLT(rent_payments[k].due_date, today)
        /\ LeaseActive(rent_payments[k].lease)}

UpdateOverduePaymentStatus ==
    /\ rent_payments' = [k \in DOMAIN rent_payments |->
            IF k \in OverdueCandidates
            THEN [rent_payments[k] EXCEPT !.status = "overdue"]
            ELSE rent_payments[k]]
    /\ UNCHANGED response
    /\ UNCHANGED <<tenants, units, today, leases, payment_records, transactions, stripe_payments,
                   next_id, requests>>

\* the queryset of apply_automatic_late_fees
LateFeeCandidates ==
    {k \in DOMAIN rent_payments :
        /\ rent_payments[k].status \in {"pending", "partial"}
        /\ DateLT(rent_payments[k].due_date, today)
        /\ rent_payments[k].late_fee_applied = 0
        /\ ~rent_payments[k].late_fee_waived
        /\ LeaseActive(rent_payments[k].lease)}

\* the test inside the loop: past the grace period
PastGrace(rp, lease, now) == DaysBetween(now, rp.due_date) > lease.late_fee_grace_days

ApplyAutomaticLateFees ==
    LET hit == {k \in LateFeeCandidates :
                    PastGrace(rent_payments[k], leases[rent_payments[k].lease], today)}
    IN  /\ rent_payments' = [k \in DOMAIN rent_payments |->
                IF k \in hit
                THEN ApplyLateFee(rent_payments[k], leases[rent_payments[k].lease], today)
                ELSE rent_payments[k]]
        /\ UNCHANGED response
        /\ UNCHANGED <<tenants, units, today, leases, payment_records, transactions, stripe_payments,
                       next_id, requests>>

----------------------------------------------------------------------------
(* banking/views.py: Stripe payment intents and the webhook *)

\* PaymentIntentView.post; stripe.PaymentIntent.create either returns an intent or
\* raises StripeError, and raises it for an amount that is not positive
CreatePaymentIntent(r, stripe_ok) ==
    /\ r \in DOMAIN rent_payments
    /\ next_id.stripe_payment <= MaxIntents
    /\ IF stripe_ok /\ BalanceDue(rent_payments[r]) > 0
       THEN /\ stripe_payments' = Insert(stripe_payments, next_id.stripe_payment,
                    [rent_payment |-> r, amount |-> BalanceDue(rent_payments[r]),
                     status |-> "pending"])
            /\ next_id' = [next_id EXCEPT !.stripe_payment = @ + 1]
            /\ response' = "ok"
       ELSE /\ response' = "STRIPE_ERROR"
            /\ UNCHANGED <<stripe_payments, next_id>>
    /\ UNCHANGED <<tenants, units, today, leases, rent_payments, payment_records, transactions, requests>>

\* StripeWebhookView._handle_payment_succeeded for the intent of stripe_payments row s
WebhookPaymentSucceeded(s) ==
    /\ s \in DOMAIN stripe_payments
    /\ next_id.payment_record <= MaxRecords
    /\ LET sp == stripe_payments[s]
           r == sp.rent_payment
           p == next_id.payment_record
           t == next_id.transaction
           recs1 == Insert(payment_records, p, NewPaymentRecord(r, sp.amount, today, "online"))
       IN  /\ stripe_payments' = [stripe_payments EXCEPT ![s].status = "succeeded"]
           /\ payment_records' = recs1
           /\ rent_payments' = [rent_payments EXCEPT ![r] =
                    Recompute(@, TotalPaid(recs1, r), today)]
           /\ transactions' = Insert(transactions, t,
                    NewTransaction(rent_payments[r].lease, sp.amount, today, "online"))
           /\ next_id' = [next_id EXCEPT !.payment_record = p + 1, !.transaction = t + 1]
           /\ response' = "ok"
    /\ UNCHANGED <<tenants, units, today, leases, requests>>

----------------------------------------------------------------------------
(* the clock *)

LedgerStart == Date(2024, 3, 5)

\* a day passes
Tick ==
    /\ DaysBetween(today, LedgerStart) < MaxDays
    /\ today' = NextDay(today)
    /\ UNCHANGED response
    /\ UNCHANGED <<tenants, units, leases, rent_payments, payment_records, transactions, stripe_payments,
                   next_id, requests>>

----------------------------------------------------------------------------
(* SpecSchedule: leases over many start days, end days and due days, and the *)
(* schedule generator run on them                                           *)

ScheduleToday == Date(2024, 2, 15)

ScheduleStarts ==
    {Date(2024, 1, d) : d \in {1, 15, 28, 31}} \cup {Date(2024, 2, d) : d \in {1, 15, 29}}
    \cup {Date(2024, 3, 31)}

ScheduleEnds ==
    {Date(2024, 3, d) : d \in {1, 10, 15, 31}} \cup {Date(2024, 2, d) : d \in {10, 29}}
    \cup {Date(2024, 1, 20), Date(2024, 4, 30), Date(2024, 5, 1), Date(2025, 1, 15)}

ScheduleLeaseInputs ==
    [start_date : ScheduleStarts, end_date : ScheduleEnds,
     rent_amount : {1000}, rent_due_day : {0, 1, 15, 28, 29},
     late_fee_type : {"fixed"}, late_fee_amount : {5000}, late_fee_grace_days : {5},
     owner : {1}, tenant : {1}, unit : {NoUnit}, security_deposit : {0},
     security_deposit_paid : {FALSE}, renewal_term_months : {12}]

NoRequests == << >>

\* the tenants and units the leases refer to, as their own endpoints left them
InitDirectory ==
    /\ tenants = [t \in {1, 2} |-> [status |-> "active"]]
    /\ units = [u \in {1} |-> [status |-> "occupied"]]

InitTables ==
    /\ leases = EmptyTable
    /\ rent_payments = EmptyTable
    /\ payment_records = EmptyTable
    /\ transactions = EmptyTable
    /\ stripe_payments = EmptyTable
    /\ next_id = [lease |-> 1, rent_payment |-> 1, payment_record |-> 1,
                  transaction |-> 1, stripe_payment |-> 1]
    /\ requests = NoRequests
    /\ response = "none"
    /\ InitDirectory

InitSchedule ==
    /\ today = ScheduleToday
    /\ InitTables

NextSchedule ==
    \/ \E in \in ScheduleLeaseInputs : CreateLease(in)
    \/ \E l \in DOMAIN leases : RunGenerateRentSchedule(l)

SpecSchedule == InitSchedule /\ [][NextSchedule]_vars

----------------------------------------------------------------------------
(* Spec: the rent ledger, every request and task running start to end *)

\* the late-fee policies of the leases: (late_fee_type, late_fee_amount)
LedgerFeePolicies ==
    {<<"fixed", 7500>>, <<"percent", 7500>>, <<"daily", 7500>>, <<"fixed", -7500>>}

LedgerLeaseInputs ==
    {[start_date |-> Date(2024, 2, 14), end_date |-> Date(2024, 3, 13),
      rent_amount |-> 100001, rent_due_day |-> 14,
      late_fee_type |-> fp[1], late_fee_amount |-> fp[2],
      late_fee_grace_days |-> 20,
      owner |-> 1, tenant |-> 1, unit |-> NoUnit, security_deposit |-> 0,
      security_deposit_paid |-> FALSE, renewal_term_months |-> 12] : fp \in LedgerFeePolicies}

PayAmounts == {0, 40000, 60001}

PaymentDates == {today, PrevDay(today)}

\* the database holds one lease, created through LeaseCreateSerializer.create
InitLedger ==
    /\ today = LedgerStart
    /\ \E in \in LedgerLeaseInputs :
          LET made == CreatedLease(in, LedgerStart, EmptyTable, EmptyTable, 1, 1)
          IN  /\ leases = made.leases
              /\ rent_payments = made.rows
              /\ next_id = [lease |-> 2, rent_payment |-> made.next, payment_record |-> 1,
                            transaction |-> 1, stripe_payment |-> 1]
    /\ payment_records = EmptyTable
    /\ transactions = EmptyTable
    /\ stripe_payments = EmptyTable
    /\ requests = NoRequests
    /\ response = "ok"
    /\ InitDirectory

Init == InitLedger

Next ==
    \/ \E r \in DOMAIN rent_payments, amount \in PayAmounts, d \in PaymentDates :
          Record(r, amount, d)
    \/ \E r \in DOMAIN rent_payments, stripe_ok \in BOOLEAN : CreatePaymentIntent(r, stripe_ok)
    \/ \E s \in DOMAIN stripe_payments : WebhookPaymentSucceeded(s)
    \/ \E r \in DOMAIN rent_payments : ApplyLateFeeEndpoint(r)
    \/ \E r \in DOMAIN rent_payments : WaiveLateFee(r, "hardship")
    \/ UpdateOverduePaymentStatus
    \/ ApplyAutomaticLateFees
    \/ Tick

Spec == Init /\ [][Next]_vars

----------------------------------------------------------------------------
(* SpecConcurrent: payment recordings whose database statements interleave.   *)
(* No view opens a transaction or locks a row, so every ORM call of           *)
(* RentPaymentViewSet.record and PaymentRecord.save is a statement of its own. *)

MaxWorkers == 2         \* recordings in flight at once

Workers == 1 .. MaxWorkers

Idle == [pc |-> "idle", r |-> 0, amount |-> 0, payment_date |-> NoDate,
         rent_payment |-> NewRentPayment(0, NoDate, 0), p |-> 0, t |-> 0, total_paid |-> 0]

\* views.py 83-87: rent_payment = self.get_object(), the request validated
StartRecord(w, r, amount, payment_date) ==
    /\ requests[w].pc = "idle"
    /\ Visible(r)
    /\ ValidAmount(amount)
    /\ requests' = [requests EXCEPT ![w] =
            [Idle EXCEPT !.pc = "fetched", !.r = r, !.amount = amount,
                         !.payment_date = payment_date, !.rent_payment = rent_payments[r]]]
    /\ UNCHANGED <<tenants, units, today, leases, rent_payments, payment_records, transactions,
                   stripe_payments, next_id, response>>

\* views.py 90-97, models.py 128: the INSERT of the PaymentRecord
InsertRecord(w) ==
    /\ requests[w].pc = "fetched"
    /\ LET p == next_id.payment_record
       IN  /\ payment_records' = Insert(payment_records, p,
                    NewPaymentRecord(requests[w].r, requests[w].amount,
                                     requests[w].payment_date, "other"))
           /\ next_id' = [next_id EXCEPT !.payment_record = p + 1]
           /\ requests' = [requests EXCEPT ![w].pc = "inserted", ![w].p = p]
    /\ UNCHANGED <<tenants, units, today, leases, rent_payments, transactions, stripe_payments, response>>

\* models.py 130-133: the SELECT of the sibling records, added up
ReadSiblings(w) ==
    /\ requests[w].pc \in {"inserted", "linked"}
    /\ requests' = [requests EXCEPT
            ![w].pc = IF @ = "inserted" THEN "summed" ELSE "summed_again",
            ![w].total_paid = TotalPaid(payment_records, requests[w].r)]
    /\ UNCHANGED <<tenants, units, today, leases, rent_payments, payment_records, transactions,
                   stripe_payments, next_id, response>>

\* models.py 134-140: the status rule on the view's RentPayment object, and the UPDATE
\* that writes every column of it
WriteRentPayment(w) ==
    /\ requests[w].pc \in {"summed", "summed_again"}
    /\ LET rp == Recompute(requests[w].rent_payment, requests[w].total_paid,
                           requests[w].payment_date)
       IN  /\ rent_payments' = [rent_payments EXCEPT ![requests[w].r] = rp]
           /\ requests' = [requests EXCEPT
                    ![w].pc = IF @ = "summed" THEN "saved" ELSE "done",
                    ![w].rent_payment = rp]
           /\ response' = IF requests[w].pc = "summed" THEN response ELSE "ok"
    /\ UNCHANGED <<tenants, units, today, leases, payment_records, transactions, stripe_payments, next_id>>

\* views.py 100-119: the INSERT of the income Transaction
CreateTransaction(w) ==
    /\ requests[w].pc = "saved"
    /\ LET t == next_id.transaction
       IN  /\ transactions' = Insert(transactions, t,
                    NewTransaction(requests[w].rent_payment.lease, requests[w].amount,
                                   requests[w].payment_date, "other"))
           /\ next_id' = [next_id EXCEPT !.transaction = t + 1]
           /\ requests' = [requests EXCEPT ![w].pc = "ledgered", ![w].t = t]
    /\ UNCHANGED <<tenants, units, today, leases, rent_payments, payment_records, stripe_payments, response>>

\* views.py 121-122, models.py 128: the UPDATE of the PaymentRecord with its transaction
LinkRecord(w) ==
    /\ requests[w].pc = "ledgered"
    /\ payment_records' = [payment_records EXCEPT ![requests[w].p].transaction = requests[w].t]
    /\ requests' = [requests EXCEPT ![w].pc = "linked"]
    /\ UNCHANGED <<tenants, units, today, leases, rent_payments, transactions, stripe_payments, next_id,
                   response>>

ConcurrentAmounts == {40000, 60001}

InitConcurrent ==
    /\ today = LedgerStart
    /\ \E in \in LedgerLeaseInputs :
          LET made == CreatedLease(in, LedgerStart, EmptyTable, EmptyTable, 1, 1)
          IN  /\ leases = made.leases
              /\ rent_payments = made.rows
              /\ next_id = [lease |-> 2, rent_payment |-> made.next, payment_record |-> 1,
                            transaction |-> 1, stripe_payment |-> 1]
    /\ payment_records = EmptyTable
    /\ transactions = EmptyTable
    /\ stripe_payments = EmptyTable
    /\ requests = [w \in Workers |-> Idle]
    /\ response = "ok"
    /\ InitDirectory

NextConcurrent ==
    \/ \E w \in Workers, r \in DOMAIN rent_payments, amount \in ConcurrentAmounts :
          StartRecord(w, r, amount, today)
    \/ \E w \in Workers : InsertRecord(w)
    \/ \E w \in Workers : ReadSiblings(w)
    \/ \E w \in Workers : WriteRentPayment(w)
    \/ \E w \in Workers : CreateTransaction(w)
    \/ \E w \in Workers : LinkRecord(w)

SpecConcurrent == InitConcurrent /\ [][NextConcurrent]_vars

----------------------------------------------------------------------------
(* Properties of the rent ledger (Spec) *)

\* the amounts of the PaymentRecords of RentPayment r in table `records`, added up
RECURSIVE AmountsAddedUp(_, _, _)
AmountsAddedUp(records, r, ids) ==
    IF ids = {} THEN 0
    ELSE LET k == CHOOSE x \in ids : TRUE
         IN  (IF records[k].rent_payment = r THEN records[k].amount ELSE 0)
             + AmountsAddedUp(records, r, ids \ {k})

RecordSum(records, r) == AmountsAddedUp(records, r, DOMAIN records)

\* what a RentPayment owes in all: amount_due + late_fee_applied
Owed(rp) == rp.amount_due + rp.late_fee_applied

\* C1: for every RentPayment, amount_paid is exactly the sum of the amounts of its
\* PaymentRecords, whatever requests and tasks have run (one after the other).
C1_AmountPaidIsSum ==
    \A r \in DOMAIN rent_payments :
        rent_payments[r].amount_paid = RecordSum(payment_records, r)

\* C1 witness: two records on a row that also carries a late fee
C1_Witness ==
    \E r \in DOMAIN rent_payments :
        /\ Cardinality({k \in DOMAIN payment_records : payment_records[k].rent_payment = r}) = 2
        /\ rent_payments[r].late_fee_applied # 0
        /\ rent_payments[r].amount_paid = 100001

\* C3 as claimed: a RentPayment that is paid is still paid after any step.
C3_PaidStaysPaid ==
    [][\A r \in DOMAIN rent_payments :
          rent_payments[r].status = "paid" => rent_payments'[r].status = "paid"]_vars

\* C4 as claimed: a RentPayment with amount_due > 0 whose payments cover the amount due
\* plus the late fee has status paid.
C4_CoveredIsPaid ==
    \A r \in DOMAIN rent_payments :
        (rent_payments[r].amount_due > 0
            /\ rent_payments[r].amount_paid >= Owed(rent_payments[r]))
        => rent_payments[r].status = "paid"

\* C5 as claimed: a paid RentPayment has balance_due >= 0.
C5_PaidBalanceNonNegative ==
    \A r \in DOMAIN rent_payments :
        rent_payments[r].status = "paid"
        => Owed(rent_payments[r]) - rent_payments[r].amount_paid >= 0

\* the PaymentRecords a step inserts for RentPayment r
InsertedFor(r) ==
    {k \in DOMAIN payment_records' \ DOMAIN payment_records :
        payment_records'[k].rent_payment = r}

\* C6: a step that inserts a PaymentRecord leaves the parent's status recomputed from the
\* new total: paid, with paid_date the payment_date of the inserted record, when the total
\* reaches amount_due + late_fee_applied; partial when it is positive and below that;
\* unchanged when it is zero.
C6_StatusAfterInsert ==
    [][\A r \in DOMAIN rent_payments : \A k \in InsertedFor(r) :
          LET total == RecordSum(payment_records', r)
              after == rent_payments'[r]
          IN  /\ total >= Owed(after)
                    => after.status = "paid"
                       /\ after.paid_date = payment_records'[k].payment_date
              /\ (0 < total /\ total < Owed(after)) => after.status = "partial"
              /\ total = 0 => after.status = rent_payments[r].status]_vars

\* C6 witness: 400.00 recorded, then 600.01 on another date, against 1000.01 due: paid,
\* with paid_date the date of the second record
C6_Witness ==
    \E r \in DOMAIN rent_payments :
        /\ DOMAIN payment_records = {1, 2}
        /\ payment_records = <<[rent_payment |-> r, amount |-> 40000,
                                payment_date |-> payment_records[1].payment_date,
                                payment_method |-> "other", transaction |-> 1],
                               [rent_payment |-> r, amount |-> 60001,
                                payment_date |-> payment_records[2].payment_date,
                                payment_method |-> "other", transaction |-> 2]>>
        /\ payment_records[1].payment_date # payment_records[2].payment_date
        /\ rent_payments[r].late_fee_applied = 0
        /\ rent_payments[r].status = "paid"
        /\ rent_payments[r].paid_date = payment_records[2].payment_date

\* C7 as claimed: once late_fee_applied is nonzero, the apply_late_fee endpoint answers
\* FEE_ALREADY_APPLIED, and neither it nor the automatic sweep changes the row.
C7_FeeAppliedOnce ==
    [][\A r \in DOMAIN rent_payments :
          rent_payments[r].late_fee_applied # 0
          => /\ ApplyLateFeeEndpoint(r)
                    => rent_payments'[r] = rent_payments[r]
                       /\ response' = "FEE_ALREADY_APPLIED"
             /\ ApplyAutomaticLateFees => rent_payments'[r] = rent_payments[r]]_vars

\* C8: a waived RentPayment has late_fee_applied 0, and is still waived with
\* late_fee_applied 0 after any step.
C8_WaivedStaysWaived ==
    [][\A r \in DOMAIN rent_payments :
          rent_payments[r].late_fee_waived
          => /\ rent_payments[r].late_fee_applied = 0
             /\ rent_payments'[r].late_fee_waived
             /\ rent_payments'[r].late_fee_applied = 0]_vars

\* C8 witness: a waived row, part paid, past the grace period of its active lease: the
\* row the sweep and the endpoint would charge were it not waived
C8_Witness ==
    \E r \in DOMAIN rent_payments :
        /\ rent_payments[r].late_fee_waived
        /\ rent_payments[r].late_fee_waived_reason = "hardship"
        /\ rent_payments[r].status = "partial"
        /\ leases[rent_payments[r].lease].status = "active"
        /\ Ordinal(today) - Ordinal(rent_payments[r].due_date)
               > leases[rent_payments[r].lease].late_fee_grace_days

\* (today - due_date).days - late_fee_grace_days
C9_DaysLate(rp, lease) == (Ordinal(today) - Ordinal(rp.due_date)) - lease.late_fee_grace_days

\* the steps that call RentPayment.apply_late_fee on row r
C9_Applies(r) ==
    \/ ApplyLateFeeEndpoint(r)
    \/ ApplyAutomaticLateFees /\ rent_payments'[r] # rent_payments[r]

\* the fee of the fixed and the daily policy
C9_FixedAndDaily(r) ==
    LET rp == rent_payments[r]
        lease == leases[rp.lease]
        fee == rent_payments'[r].late_fee_applied
    IN  /\ lease.late_fee_type = "fixed" => fee = lease.late_fee_amount
        /\ (lease.late_fee_type = "daily" /\ C9_DaysLate(rp, lease) > 0)
               => fee = lease.late_fee_amount * C9_DaysLate(rp, lease)
        /\ (lease.late_fee_type = "daily" /\ C9_DaysLate(rp, lease) <= 0) => fee = 0

\* the example: daily, 10.00 a day, 5 grace days, 20 days overdue gives 150.00
C9_Example ==
    LateFeeFor([due_date |-> Date(2024, 3, 1), amount_due |-> 100000, late_fee_applied |-> 0],
               [late_fee_type |-> "daily", late_fee_amount |-> 1000, late_fee_grace_days |-> 5],
               Date(2024, 3, 21)) = 15000

\* C9 as claimed: apply_late_fee on a row with no fee and no waiver sets the fee by the
\* policy, the percent policy giving amount_due * late_fee_amount / 100 exactly.
C9_FeeByPolicyExact ==
    [][\A r \in DOMAIN rent_payments :
          (rent_payments[r].late_fee_applied = 0 /\ ~rent_payments[r].late_fee_waived
              /\ C9_Applies(r))
          => /\ C9_FixedAndDaily(r)
             /\ leases[rent_payments[r].lease].late_fee_type = "percent"
                    => 10000 * rent_payments'[r].late_fee_applied
                           = rent_payments[r].amount_due
                               * leases[rent_payments[r].lease].late_fee_amount]_vars

\* C9 amended: as claimed, except that the percent policy gives
\* amount_due * late_fee_amount / 100 rounded to the two decimal places of the column
\* (the stored fee is within half a hundredth of the product).
C9_FeeByPolicy ==
    [][/\ C9_Example
       /\ \A r \in DOMAIN rent_payments :
            (rent_payments[r].late_fee_applied = 0 /\ ~rent_payments[r].late_fee_waived
                /\ C9_Applies(r))
            => /\ C9_FixedAndDaily(r)
               /\ leases[rent_payments[r].lease].late_fee_type = "percent"
                    => LET diff == 10000 * rent_payments'[r].late_fee_applied
                                     - rent_payments[r].amount_due
                                         * leases[rent_payments[r].lease].late_fee_amount
                       IN  -5000 <= diff /\ diff <= 5000]_vars

\* C9 witness: a daily fee charged for two days late
C9_Witness ==
    \E r \in DOMAIN rent_payments :
        /\ leases[rent_payments[r].lease].late_fee_type = "daily"
        /\ C9_DaysLate(rent_payments[r], leases[rent_payments[r].lease]) = 2
        /\ rent_payments[r].late_fee_applied = 2 * leases[rent_payments[r].lease].late_fee_amount

----------------------------------------------------------------------------
(* Properties of overlapping recordings (SpecConcurrent) *)

\* every recording that was started has run to its end
AllRecordingsFinished ==
    /\ \A w \in Workers : requests[w].pc \in {"idle", "done"}
    /\ \E w \in Workers : requests[w].pc = "done"

\* C2 as claimed: once all overlapping recordings have finished, amount_paid is the sum
\* of the RentPayment's PaymentRecords and the status corresponds to that total.
C2_NoRecordingLost ==
    AllRecordingsFinished
    => \A r \in DOMAIN rent_payments :
          LET total == RecordSum(payment_records, r)
          IN  /\ rent_payments[r].amount_paid = total
              /\ total >= Owed(rent_payments[r]) => rent_payments[r].status = "paid"
              /\ (0 < total /\ total < Owed(rent_payments[r]))
                     => rent_payments[r].status = "partial"

----------------------------------------------------------------------------
(* Properties of the schedule generator (SpecSchedule) *)

\* calendar months counted from year 0
MonthIndex(dt) == dt.year * 12 + dt.month

\* the calendar months the range [start_date, end_date] of a lease touches
MonthsTouched(lease) == MonthIndex(lease.start_date) .. MonthIndex(lease.end_date)

\* the RentPayments of lease l that are due in calendar month mi
RowsDueIn(l, mi) ==
    {k \in DOMAIN rent_payments :
        rent_payments[k].lease = l /\ MonthIndex(rent_payments[k].due_date) = mi}

\* generate_rent_schedule has run on lease l: at its creation when it started active,
\* or called directly (only then has a pending lease rows)
ScheduleGenerated(l) ==
    \/ leases[l].status = "active"
    \/ leases[l].status = "pending" /\ \E k \in DOMAIN rent_payments : rent_payments[k].lease = l

\* the length of calendar month mi
MonthLength(mi) == DaysInMonth((mi - 1) \div 12, ((mi - 1) % 12) + 1)

\* the day of month the walk stands on in month mi: the start day, cut down to the
\* length of every month passed on the way
WalkDay(lease, mi) ==
    LET lengths == {MonthLength(j) : j \in MonthIndex(lease.start_date) + 1 .. mi}
        days == {lease.start_date.day} \cup lengths
    IN  CHOOSE d \in days : \A e \in days : d <= e

\* C10 as claimed: a generated schedule has exactly one RentPayment for each calendar
\* month the lease's range touches, each due on a day of month <= 28.
C10_OnePerMonthTouched ==
    \A l \in DOMAIN leases :
        ScheduleGenerated(l)
        => /\ \A mi \in MonthsTouched(leases[l]) : Cardinality(RowsDueIn(l, mi)) = 1
           /\ \A k \in DOMAIN rent_payments :
                 rent_payments[k].lease = l => rent_payments[k].due_date.day <= 28

\* the due date of calendar month mi under the lease's due day
DueDateOfMonth(lease, mi) ==
    Date((mi - 1) \div 12, ((mi - 1) % 12) + 1,
         IF lease.rent_due_day < 28 THEN lease.rent_due_day ELSE 28)

\* C10 read narrowly: every touched month whose due date lies inside
\* [start_date, end_date] has its RentPayment. The walk steps month by month from the
\* start day, so it can leave the range before it reaches the last month's due date.
C10_OnePerDueDateInRange ==
    \A l \in DOMAIN leases :
        ScheduleGenerated(l)
        => \A mi \in MonthsTouched(leases[l]) :
               DueDateInRange(leases[l], DueDateOfMonth(leases[l], mi))
               => Cardinality(RowsDueIn(l, mi)) = 1

\* a lease from 2024-01-15 to 2024-03-10 due on the 1st has a RentPayment for
\* 2024-02-01 and none for 2024-03-01
C10_SkippedLastMonth ==
    \E l \in DOMAIN leases :
        /\ leases[l].start_date = Date(2024, 1, 15)
        /\ leases[l].end_date = Date(2024, 3, 10)
        /\ leases[l].rent_due_day = 1
        /\ {rent_payments[k].due_date : k \in {j \in DOMAIN rent_payments :
                                                   rent_payments[j].lease = l}}
              = {Date(2024, 2, 1)}

\* month mi of the lease has its due date inside the range and is reached by the walk
HasDueDate(lease, mi) ==
    LET due_day == IF lease.rent_due_day < 28 THEN lease.rent_due_day ELSE 28
    IN  /\ mi > MonthIndex(lease.start_date) \/ due_day >= lease.start_date.day
        /\ mi < MonthIndex(lease.end_date)
              \/ (due_day <= lease.end_date.day /\ WalkDay(lease, mi) <= lease.end_date.day)

\* what the generator does produce: a generated schedule has at most one RentPayment for each calendar month
\* the range touches and none outside, each due on day min(rent_due_day, 28) and inside
\* [start_date, end_date]; a touched month has its RentPayment except the first month
\* when the due day is before the start day, and the last month when the due day, or the
\* start day as the month-by-month walk carries it, is after the end day.
ScheduleFollowsWalk ==
    \A l \in DOMAIN leases :
        ScheduleGenerated(l)
        => /\ \A mi \in MonthsTouched(leases[l]) :
                 Cardinality(RowsDueIn(l, mi)) = IF HasDueDate(leases[l], mi) THEN 1 ELSE 0
           /\ \A k \in DOMAIN rent_payments :
                 rent_payments[k].lease = l
                 => /\ rent_payments[k].due_date.day <= 28
                    /\ rent_payments[k].due_date.day
                          = (IF leases[l].rent_due_day < 28 THEN leases[l].rent_due_day ELSE 28)
                    /\ MonthIndex(rent_payments[k].due_date) \in MonthsTouched(leases[l])
                    /\ Ordinal(leases[l].start_date) <= Ordinal(rent_payments[k].due_date)
                    /\ Ordinal(rent_payments[k].due_date) <= Ordinal(leases[l].end_date)

\* a lease from 2024-01-31 to 2024-03-31 due on the 1st: nothing for
\* January, one RentPayment each for February and March
ScheduleFromJanuary31 ==
    \E l \in DOMAIN leases :
        /\ leases[l].start_date = Date(2024, 1, 31)
        /\ leases[l].end_date = Date(2024, 3, 31)
        /\ leases[l].rent_due_day = 1
        /\ {rent_payments[k].due_date : k \in {j \in DOMAIN rent_payments :
                                                   rent_payments[j].lease = l}}
              = {Date(2024, 2, 1), Date(2024, 3, 1)}

----------------------------------------------------------------------------
(* LeaseViewSet: update, destroy, terminate, renew *)

\* LeaseViewSet.get_queryset: the leases a request can address
LeaseVisible(l) == l \in DOMAIN leases /\ ~leases[l].is_deleted

\* LeaseCreateSerializer.validate on the attributes a request carries: a date that is
\* absent from attrs passes the first test, an absent rent_due_day counts as 1
ValidateAttrs(attrs) ==
    IF /\ "end_date" \in DOMAIN attrs /\ "start_date" \in DOMAIN attrs
       /\ DateLE(attrs.end_date, attrs.start_date)
    THEN "end_date"
    ELSE LET rent_due_day == IF "rent_due_day" \in DOMAIN attrs THEN attrs.rent_due_day ELSE 1
         IN  IF rent_due_day < 1 \/ rent_due_day > 28 THEN "rent_due_day" ELSE "ok"

\* the fields of LeaseCreateSerializer without a model default: a PUT must carry them
RequiredFields == {"tenant", "start_date", "end_date", "rent_amount"}

\* ModelSerializer.update: setattr for every validated attribute, then save
Merge(row, attrs) == [f \in DOMAIN row |-> IF f \in DOMAIN attrs THEN attrs[f] ELSE row[f]]

\* PUT (partial = FALSE) and PATCH (partial = TRUE) /leases/{id}/
UpdateLease(l, attrs, partial) ==
    /\ LeaseVisible(l)
    /\ IF (~partial /\ ~(RequiredFields \subseteq DOMAIN attrs)) \/ ValidateAttrs(attrs) # "ok"
       THEN /\ response' = "VALIDATION_ERROR"
            /\ UNCHANGED leases
       ELSE /\ leases' = [leases EXCEPT ![l] = Merge(@, attrs)]
            /\ response' = "ok"
    /\ UNCHANGED <<today, rent_payments, payment_records, transactions, stripe_payments,
                   next_id, requests, tenants, units>>

\* DELETE /leases/{id}/: SoftDeleteModel.delete
DestroyLease(l) ==
    /\ LeaseVisible(l)
    /\ leases' = [leases EXCEPT ![l].is_deleted = TRUE]
    /\ response' = "ok"
    /\ UNCHANGED <<today, rent_payments, payment_records, transactions, stripe_payments,
                   next_id, requests, tenants, units>>

\* a status test that lets every lease through
AllowedAlways(lease) == TRUE

\* the status test of terminate
TerminateAllowed(lease) == lease.status = "active"

\* a status test that lets the closed leases through as well
AllowedWhenClosed(lease) == lease.status \in {"active", "expired", "terminated", "renewed"}

\* the status test of renew
RenewAllowed(lease) == lease.status \in {"active", "expired"}

\* a query on all_objects: the soft-deleted leases count as well
HasOtherActiveLeaseOrDeleted(ls, l) ==
    \E k \in DOMAIN ls : k # l /\ ls[k].tenant = ls[l].tenant /\ ls[k].status = "active"

\* Lease.objects.filter(tenant=lease.tenant, status='active').exclude(id=lease.id).exists()
\* (Lease.objects leaves the soft-deleted leases out)
HasOtherActiveLease(ls, l) ==
    \E k \in DOMAIN ls :
        k # l /\ ~ls[k].is_deleted /\ ls[k].tenant = ls[l].tenant /\ ls[k].status = "active"

\* POST /leases/{id}/terminate/
Terminate(l, termination_date, reason) ==
    /\ LeaseVisible(l)
    /\ IF ~TerminateAllowed(leases[l])
       THEN /\ response' = "INVALID_STATUS"
            /\ UNCHANGED <<leases, tenants, units>>
       ELSE /\ leases' = [leases EXCEPT ![l].status = "terminated",
                                        ![l].terminated_date = termination_date,
                                        ![l].termination_reason = reason]
            /\ tenants' = IF HasOtherActiveLease(leases', l) THEN tenants
                          ELSE [tenants EXCEPT ![leases[l].tenant].status = "past"]
            /\ units' = IF leases[l].unit = NoUnit THEN units
                        ELSE [units EXCEPT ![leases[l].unit].status = "vacant"]
            /\ response' = "ok"
    /\ UNCHANGED <<today, rent_payments, payment_records, transactions, stripe_payments,
                   next_id, requests>>

\* a month addition that stops one month short
AddMonthsShort(dt, n) ==
    LET idx == dt.year * 12 + (dt.month - 1) + n - 1
        y == idx \div 12
        m == (idx % 12) + 1
    IN  Date(y, m, Min(dt.day, DaysInMonth(y, m)))

\* dt + relativedelta(months=n): the month moves by n, the day is cut to the month's length
AddMonths(dt, n) ==
    LET idx == dt.year * 12 + (dt.month - 1) + n
        y == idx \div 12
        m == (idx % 12) + 1
    IN  Date(y, m, Min(dt.day, DaysInMonth(y, m)))

\* the Lease row that renew creates from old_lease
RenewedLease(old, term_months, new_rent) ==
    LET new_start == NextDay(old.end_date)
        new_end == PrevDay(AddMonths(new_start, term_months))
    IN  [status |-> "active", is_deleted |-> FALSE,
         owner |-> old.owner, tenant |-> old.tenant, unit |-> old.unit,
         start_date |-> new_start, end_date |-> new_end,
         rent_amount |-> new_rent, rent_due_day |-> old.rent_due_day,
         security_deposit |-> old.security_deposit,
         security_deposit_paid |-> old.security_deposit_paid,
         late_fee_type |-> old.late_fee_type, late_fee_amount |-> old.late_fee_amount,
         late_fee_grace_days |-> old.late_fee_grace_days,
         renewal_term_months |-> old.renewal_term_months,
         terminated_date |-> NoDate, termination_reason |-> ""]

\* POST /leases/{id}/renew/ with the request data req (term_months, rent_amount optional)
Renew(l, req) ==
    /\ LeaseVisible(l)
    /\ RenewAllowed(leases[l]) => next_id.lease <= MaxLeases
    /\ IF ~RenewAllowed(leases[l])
       THEN /\ response' = "INVALID_STATUS"
            /\ UNCHANGED <<leases, rent_payments, next_id>>
       ELSE LET old == leases[l]
                term_months == IF "term_months" \in DOMAIN req THEN req.term_months
                               ELSE old.renewal_term_months
                new_rent == IF "rent_amount" \in DOMAIN req THEN req.rent_amount
                            ELSE old.rent_amount
                new_lease == RenewedLease(old, term_months, new_rent)
                gen == GenerateRentSchedule(next_id.lease, new_lease, rent_payments,
                                            next_id.rent_payment)
            IN  /\ leases' = Insert([leases EXCEPT ![l].status = "renewed"],
                                    next_id.lease, new_lease)
                /\ rent_payments' = gen.rows
                /\ next_id' = [next_id EXCEPT !.lease = @ + 1, !.rent_payment = gen.next]
                /\ response' = "ok"
    /\ UNCHANGED <<today, payment_records, transactions, stripe_payments, requests,
                   tenants, units>>

----------------------------------------------------------------------------
(* SpecLifecycle: leases created, updated, deleted, terminated and renewed *)

\* the tenant and the unit of a created lease
LifecycleParties == {<<1, 1>>, <<2, NoUnit>>}

LifecycleLeaseInputs ==
    {[start_date |-> start, end_date |-> end,
      rent_amount |-> 1000, rent_due_day |-> due,
      late_fee_type |-> "fixed", late_fee_amount |-> 5000, late_fee_grace_days |-> 5,
      owner |-> 1, tenant |-> pt[1], unit |-> pt[2], security_deposit |-> 50000,
      security_deposit_paid |-> TRUE, renewal_term_months |-> 2] :
        start \in {Date(2024, 3, 5), Date(2024, 3, 6)},
        end \in {Date(2024, 4, 4), Date(2024, 3, 5)},
        due \in {5, 29},
        pt \in LifecycleParties}

\* the bodies of the PATCH requests
PatchInputs ==
    {[end_date |-> Date(2024, 2, 1)], [end_date |-> Date(2024, 3, 30)], [rent_due_day |-> 29]}

\* the bodies of the PUT requests on a lease: the lease as it is with a rent of 1000, its
\* end_date set to its start_date, and a body without the required fields
PutInputs(lease) ==
    {[tenant |-> lease.tenant, start_date |-> lease.start_date,
      end_date |-> lease.end_date, rent_amount |-> 1000],
     [tenant |-> lease.tenant, start_date |-> lease.start_date,
      end_date |-> lease.start_date, rent_amount |-> 1000],
     [rent_amount |-> 1200]}

\* the bodies of the renew requests
RenewInputs == {<< >>, [term_months |-> 1], [term_months |-> 0, rent_amount |-> 1200]}

InitLifecycle ==
    /\ today = LedgerStart
    /\ InitTables

NextLifecycle ==
    \/ \E in \in LifecycleLeaseInputs : CreateLease(in)
    \/ \E l \in DOMAIN leases, attrs \in PatchInputs : UpdateLease(l, attrs, TRUE)
    \/ \E l \in DOMAIN leases : \E attrs \in PutInputs(leases[l]) : UpdateLease(l, attrs, FALSE)
    \/ \E l \in DOMAIN leases : DestroyLease(l)
    \/ \E l \in DOMAIN leases : Terminate(l, today, "moved out")
    \/ \E l \in DOMAIN leases, req \in RenewInputs : Renew(l, req)

SpecLifecycle == InitLifecycle /\ [][NextLifecycle]_vars

----------------------------------------------------------------------------
(* SpecRegenerate: generate_rent_schedule run again on leases whose rows have moved on *)

RegenerateLeaseInput ==
    [start_date |-> Date(2024, 1, 10), end_date |-> Date(2024, 3, 9),
     rent_amount |-> 100001, rent_due_day |-> 10,
     late_fee_type |-> "fixed", late_fee_amount |-> 7500, late_fee_grace_days |-> 20,
     owner |-> 1, tenant |-> 1, unit |-> NoUnit, security_deposit |-> 0,
     security_deposit_paid |-> FALSE, renewal_term_months |-> 2]

\* the database holds one lease, created through LeaseCreateSerializer.create; renew
\* adds the leases that follow it
InitRegenerate ==
    /\ today = LedgerStart
    /\ LET made == CreatedLease(RegenerateLeaseInput, LedgerStart,
                                EmptyTable, EmptyTable, 1, 1)
       IN  /\ leases = made.leases
           /\ rent_payments = made.rows
           /\ next_id = [lease |-> 2, rent_payment |-> made.next, payment_record |-> 1,
                         transaction |-> 1, stripe_payment |-> 1]
    /\ payment_records = EmptyTable
    /\ transactions = EmptyTable
    /\ stripe_payments = EmptyTable
    /\ requests = NoRequests
    /\ response = "ok"
    /\ InitDirectory

\* the body of the renew requests: empty, the term is the lease's renewal_term_months
RenewDefaults == << >>

NextRegenerate ==
    \/ \E r \in DOMAIN rent_payments, amount \in PayAmounts : Record(r, amount, today)
    \/ UpdateOverduePaymentStatus
    \/ \E l \in DOMAIN leases : RunGenerateRentSchedule(l)
    \/ \E l \in DOMAIN leases : Renew(l, RenewDefaults)

SpecRegenerate == InitRegenerate /\ [][NextRegenerate]_vars

----------------------------------------------------------------------------
(* Claims on SpecRegenerate *)

\* the due dates of the RentPayments of lease l
DueDatesOf(rows, l) == {rows[k].due_date : k \in {j \in DOMAIN rows : rows[j].lease = l}}

NoDuplicateDueDates ==
    \A j, k \in DOMAIN rent_payments :
        (rent_payments[j].lease = rent_payments[k].lease
            /\ rent_payments[j].due_date = rent_payments[k].due_date) => j = k

\* C11: however often generate_rent_schedule runs on a lease, no two RentPayments have
\* the same (lease, due_date), and a further run leaves the lease with the set of due
\* dates the first run (at creation) gave it, whatever statuses its rows have by then.
C11_RegenerateIdempotent ==
    /\ []NoDuplicateDueDates
    /\ [][\A l \in DOMAIN leases :
            RunGenerateRentSchedule(l)
            => DueDatesOf(rent_payments', l) = DueDatesOf(rent_payments, l)]_vars

\* a run has replaced the pending row of lease 1 while its other row was paid
C11_Witness ==
    /\ \E k \in DOMAIN rent_payments :
          rent_payments[k].lease = 1 /\ rent_payments[k].status = "paid"
    /\ \E k \in DOMAIN rent_payments :
          rent_payments[k].lease = 1 /\ rent_payments[k].status = "pending" /\ k > 2

\* C12: a run of generate_rent_schedule on lease l leaves every RentPayment that is not
\* a pending row of l (other statuses, other leases) and every PaymentRecord as it was.
C12_RegenerateFrame ==
    [][\A l \in DOMAIN leases :
          RunGenerateRentSchedule(l)
          => /\ \A k \in DOMAIN rent_payments :
                   (rent_payments[k].lease # l \/ rent_payments[k].status # "pending")
                   => k \in DOMAIN rent_payments' /\ rent_payments'[k] = rent_payments[k]
             /\ payment_records' = payment_records]_vars

\* a run has replaced a pending row of lease 1 and its partial row still has its record
C12_Witness ==
    /\ \E k \in DOMAIN rent_payments :
          /\ rent_payments[k].lease = 1 /\ rent_payments[k].status = "partial"
          /\ \E p \in DOMAIN payment_records : payment_records[p].rent_payment = k
    /\ \E k \in DOMAIN rent_payments :
          rent_payments[k].lease = 1 /\ rent_payments[k].status = "pending" /\ k > 2

----------------------------------------------------------------------------
(* Claims on SpecLifecycle *)

\* the due dates a schedule generation gives a lease with these terms: the due date of
\* every touched month that lies inside the lease and is reached by the walk
ScheduleOf(lease) ==
    {DueDateOfMonth(lease, mi) : mi \in {m \in MonthsTouched(lease) : HasDueDate(lease, m)}}

\* the RentPayments of lease l in the table rows are a fresh schedule for its terms
FreshSchedule(rows, l, lease) ==
    /\ DueDatesOf(rows, l) = ScheduleOf(lease)
    /\ \A k \in DOMAIN rows :
          rows[k].lease = l
          => rows[k].amount_due = lease.rent_amount /\ rows[k].status = "pending"

\* C13: a lease created through the API is active with its rent schedule generated when
\* start_date <= today, and pending without any RentPayment when start_date > today;
\* no lease is left in draft.
C13_CreateSetsStatus ==
    /\ [](\A l \in DOMAIN leases : leases[l].status # "draft")
    /\ [][\A in \in LifecycleLeaseInputs :
            (CreateLease(in) /\ response' = "ok")
            => LET l == next_id.lease
               IN  /\ DOMAIN leases' = DOMAIN leases \cup {l}
                   /\ l \notin DOMAIN leases
                   /\ IF DateLE(in.start_date, today)
                      THEN /\ leases'[l].status = "active"
                           /\ FreshSchedule(rent_payments', l, leases'[l])
                      ELSE /\ leases'[l].status = "pending"
                           /\ DueDatesOf(rent_payments', l) = {}]_vars

\* both cases have happened: a lease starting today, active with its RentPayment, and a
\* lease starting tomorrow, pending without any
C13_Witness ==
    \E a, b \in DOMAIN leases :
        /\ leases[a].status = "active" /\ leases[a].start_date = today
        /\ DueDatesOf(rent_payments, a) = {Date(2024, 3, 5)}
        /\ leases[b].status = "pending" /\ leases[b].start_date = Date(2024, 3, 6)
        /\ DueDatesOf(rent_payments, b) = {}

\* C14: terminate on a lease that is not active, and renew on a lease that is neither
\* active nor expired, answer INVALID_STATUS and leave the leases (none created), the
\* tenants, the units and the RentPayments as they were.
C14_InvalidStatusRejected ==
    [][\A l \in DOMAIN leases :
          /\ (Terminate(l, today, "moved out") /\ leases[l].status # "active")
             => /\ response' = "INVALID_STATUS"
                /\ UNCHANGED <<leases, tenants, units, rent_payments, payment_records,
                               next_id>>
          /\ \A req \in RenewInputs :
                (Renew(l, req) /\ leases[l].status \notin {"active", "expired"})
                => /\ response' = "INVALID_STATUS"
                   /\ UNCHANGED <<leases, tenants, units, rent_payments, payment_records,
                                  next_id>>]_vars

\* a request was refused with INVALID_STATUS while every lease a request can address
\* was pending, terminated or renewed
C14_Witness ==
    /\ response = "INVALID_STATUS"
    /\ \E l \in DOMAIN leases : LeaseVisible(l) /\ leases[l].status = "terminated"
    /\ \A l \in DOMAIN leases :
          LeaseVisible(l) => leases[l].status \in {"pending", "terminated", "renewed"}

\* C15: terminating an active lease sets status terminated with terminated_date and
\* termination_reason; the tenant becomes past exactly when no other active lease that
\* is not deleted names the tenant, and is left alone otherwise; the lease's unit, when
\* it has one, becomes vacant.
C15_TerminateCascades ==
    [][\A l \in DOMAIN leases :
          (Terminate(l, today, "moved out") /\ leases[l].status = "active")
          => LET t == leases[l].tenant
                 u == leases[l].unit
                 other == \E k \in DOMAIN leases \ {l} :
                              /\ ~leases[k].is_deleted
                              /\ leases[k].tenant = t
                              /\ leases[k].status = "active"
             IN  /\ leases' = [leases EXCEPT ![l].status = "terminated",
                                             ![l].terminated_date = today,
                                             ![l].termination_reason = "moved out"]
                 /\ tenants'[t].status = (IF other THEN tenants[t].status ELSE "past")
                 /\ \A x \in DOMAIN tenants \ {t} : tenants'[x] = tenants[x]
                 /\ IF u = NoUnit THEN units' = units ELSE units'[u].status = "vacant"
                 /\ response' = "ok"]_vars

\* a lease of tenant 1 on unit 1 was terminated while the tenant had another active
\* lease: the tenant is still active, the unit is vacant
C15_Witness ==
    \E l, k \in DOMAIN leases :
        /\ l # k
        /\ leases[l].status = "terminated" /\ leases[l].terminated_date = today
        /\ leases[l].tenant = 1 /\ leases[l].unit = 1
        /\ leases[k].status = "active" /\ ~leases[k].is_deleted /\ leases[k].tenant = 1
        /\ tenants[1].status = "active"
        /\ units[1].status = "vacant"

\* another lease that is active and not deleted references the unit of lease l
OtherActiveLeaseOnUnit(l) ==
    \E k \in DOMAIN leases \ {l} :
        /\ ~leases[k].is_deleted
        /\ leases[k].status = "active"
        /\ leases[k].unit = leases[l].unit

\* C30: terminating a lease never marks a unit vacant while another active lease that
\* is not deleted references the same unit.
C30_UnitCascadeRespectsOtherLeases ==
    [][\A l \in DOMAIN leases :
          (/\ Terminate(l, today, "moved out")
           /\ leases[l].status = "active"
           /\ leases[l].unit # NoUnit
           /\ OtherActiveLeaseOnUnit(l))
          => units'[leases[l].unit].status = units[leases[l].unit].status]_vars

\* unit 1 is vacant, a lease on it was terminated, and another lease on it is active
C30_VacantUnitWithActiveLease ==
    \E l, k \in DOMAIN leases :
        /\ l # k
        /\ leases[l].unit = 1 /\ leases[l].status = "terminated"
        /\ leases[k].unit = 1 /\ leases[k].status = "active" /\ ~leases[k].is_deleted
        /\ units[1].status = "vacant"

\* the term a renew request asks for
TermOf(req, old) ==
    IF "term_months" \in DOMAIN req THEN req.term_months ELSE old.renewal_term_months

C18_LeaseBoundsKept ==
    \A l \in DOMAIN leases :
        /\ Ordinal(leases[l].start_date) < Ordinal(leases[l].end_date)
        /\ leases[l].rent_due_day >= 1 /\ leases[l].rent_due_day <= 28

\* a PATCH that carried only an end_date has put it before the lease's start_date
C18_PatchedEndBeforeStart ==
    \E l \in DOMAIN leases :
        /\ leases[l].start_date = Date(2024, 3, 5)
        /\ leases[l].end_date = Date(2024, 2, 1)

\* a renewal for 0 months has created a lease that ends the day before it starts
C18_RenewedForNoTime ==
    \E l \in DOMAIN leases :
        /\ leases[l].start_date = Date(2024, 4, 5)
        /\ leases[l].end_date = Date(2024, 4, 4)

\* C19: a lease gets its status from create (pending or active) or as the new lease
\* of a renewal (active); afterwards the status changes only by terminate, from active
\* to terminated, and by renew, from active or expired to renewed; PUT, PATCH and
\* delete leave it alone, and a terminated or renewed lease keeps its status.
C19_StatusByLifecycleOnly ==
    [][/\ DOMAIN leases \subseteq DOMAIN leases'
       /\ \A l \in DOMAIN leases' \ DOMAIN leases :
             \/ /\ \E in \in LifecycleLeaseInputs : CreateLease(in)
                /\ leases'[l].status \in {"pending", "active"}
             \/ /\ \E k \in DOMAIN leases : \E req \in RenewInputs : Renew(k, req)
                /\ leases'[l].status = "active"
       /\ \A l \in DOMAIN leases :
             /\ leases'[l].status # leases[l].status
                => \/ /\ Terminate(l, today, "moved out")
                      /\ leases[l].status = "active"
                      /\ leases'[l].status = "terminated"
                   \/ /\ \E req \in RenewInputs : Renew(l, req)
                      /\ leases[l].status \in {"active", "expired"}
                      /\ leases'[l].status = "renewed"
             /\ leases[l].status \in {"terminated", "renewed"}
                => leases'[l].status = leases[l].status
             /\ leases'[l].status # leases[l].status
                => ~(\/ \E attrs \in PatchInputs : UpdateLease(l, attrs, TRUE)
                     \/ \E attrs \in PutInputs(leases[l]) : UpdateLease(l, attrs, FALSE)
                     \/ DestroyLease(l))]_vars

\* a lease was terminated, then patched and deleted, and is still terminated; another
\* was renewed
C19_Witness ==
    /\ \E l \in DOMAIN leases :
          /\ leases[l].status = "terminated" /\ leases[l].is_deleted
          /\ leases[l].end_date = Date(2024, 3, 30)
    /\ \E l \in DOMAIN leases : leases[l].status = "renewed"

----------------------------------------------------------------------------
(* Claims on SpecRegenerate: renew *)

\* C17: renewing a lease changes only the status of the old lease, to renewed, and the
\* schedule generation for the new lease deletes and modifies no RentPayment that
\* existed before and no PaymentRecord.
C17_RenewFrame ==
    [][\A l \in DOMAIN leases :
          (Renew(l, RenewDefaults) /\ leases[l].status \in {"active", "expired"})
          => /\ leases'[l] = [leases[l] EXCEPT !.status = "renewed"]
             /\ \A k \in DOMAIN leases \ {l} : leases'[k] = leases[k]
             /\ \A k \in DOMAIN rent_payments :
                   k \in DOMAIN rent_payments' /\ rent_payments'[k] = rent_payments[k]
             /\ payment_records' = payment_records]_vars

\* lease 1 was renewed while it had a pending RentPayment and a partial one with its
\* PaymentRecord; the new lease has its schedule
C17_Witness ==
    /\ leases[1].status = "renewed"
    /\ \E k \in DOMAIN rent_payments :
          rent_payments[k].lease = 1 /\ rent_payments[k].status = "pending"
    /\ \E k \in DOMAIN rent_payments :
          /\ rent_payments[k].lease = 1 /\ rent_payments[k].status = "partial"
          /\ \E p \in DOMAIN payment_records : payment_records[p].rent_payment = k
    /\ \E k \in DOMAIN rent_payments : rent_payments[k].lease = 2

----------------------------------------------------------------------------
(* SpecActivation: the lease endpoints, the clock and the periodic tasks, with the *)
(* clock and the tasks running whenever they can                                   *)

ActivationLeaseInputs ==
    {[start_date |-> start, end_date |-> Date(2024, 4, 4),
      rent_amount |-> 1000, rent_due_day |-> 5,
      late_fee_type |-> "fixed", late_fee_amount |-> 5000, late_fee_grace_days |-> 0,
      owner |-> 1, tenant |-> pt[1], unit |-> pt[2], security_deposit |-> 50000,
      security_deposit_paid |-> TRUE, renewal_term_months |-> 2] :
        start \in {Date(2024, 3, 5), Date(2024, 3, 6), Date(2024, 3, 7)},
        pt \in LifecycleParties}

InitActivation ==
    /\ today = LedgerStart
    /\ InitTables

NextActivation ==
    \/ \E in \in ActivationLeaseInputs : CreateLease(in)
    \/ \E l \in DOMAIN leases, attrs \in PatchInputs : UpdateLease(l, attrs, TRUE)
    \/ \E l \in DOMAIN leases : \E attrs \in PutInputs(leases[l]) : UpdateLease(l, attrs, FALSE)
    \/ \E l \in DOMAIN leases : DestroyLease(l)
    \/ \E l \in DOMAIN leases : Terminate(l, today, "moved out")
    \/ \E l \in DOMAIN leases : Renew(l, RenewDefaults)
    \/ UpdateOverduePaymentStatus
    \/ ApplyAutomaticLateFees
    \/ Tick

\* the days pass, and the periodic tasks of payments/tasks.py run when they have work
FairActivation ==
    /\ WF_vars(Tick)
    /\ WF_vars(UpdateOverduePaymentStatus)
    /\ WF_vars(ApplyAutomaticLateFees)

SpecActivation == InitActivation /\ [][NextActivation]_vars /\ FairActivation

----------------------------------------------------------------------------
(* Claims on SpecActivation *)

RowsExistFor(l) == \E k \in DOMAIN rent_payments : rent_payments[k].lease = l

\* the lease is pending, is not deleted, and its start date has come
PendingAtStart(l) ==
    /\ l \in DOMAIN leases
    /\ leases[l].status = "pending"
    /\ ~leases[l].is_deleted
    /\ DateLE(leases[l].start_date, today)

Activated(l) ==
    /\ l \in DOMAIN leases
    /\ \/ leases[l].is_deleted
       \/ leases[l].status = "active" /\ RowsExistFor(l)

\* C20: a pending lease whose start date has come is eventually active with its
\* RentPayment rows generated, unless it is deleted.
C20_PendingBecomesActive ==
    \A l \in 1..MaxLeases : PendingAtStart(l) ~> Activated(l)

\* the day after the start date of a pending lease that was not deleted: it is still
\* pending and has no rows
C20_StillPendingAfterStart ==
    \E l \in DOMAIN leases :
        /\ PendingAtStart(l)
        /\ DateLT(leases[l].start_date, today)
        /\ ~RowsExistFor(l)

\* no step takes a lease out of pending or gives it its schedule
PendingIsNeverLeft ==
    [][\A l \in DOMAIN leases :
          leases[l].status = "pending"
              => /\ l \in DOMAIN leases'
                 /\ leases'[l].status = "pending"
                 /\ (~RowsExistFor(l) => ~RowsExistFor(l)')]_vars

----------------------------------------------------------------------------
(* SpecOwnership: the detail routes of LeaseViewSet and RentPaymentViewSet called by *)
(* two users on every id, their own, the other's, deleted and never handed out       *)

Users == {1, 2}

\* LeaseViewSet.get_queryset for request.user = user, without the owner filter
LeaseInQuerysetOfAnyone(user, l) == l \in DOMAIN leases /\ ~leases[l].is_deleted

\* LeaseViewSet.get_queryset for request.user = user
LeaseInQueryset(user, l) ==
    /\ l \in DOMAIN leases
    /\ leases[l].owner = user
    /\ ~leases[l].is_deleted

\* RentPaymentViewSet.get_queryset for request.user = user
RentPaymentInQueryset(user, r) ==
    /\ r \in DOMAIN rent_payments
    /\ leases[rent_payments[r].lease].owner = user
    /\ ~leases[rent_payments[r].lease].is_deleted

\* get_object() raises Http404: the 404 response, nothing written
NotFound ==
    /\ response' = "NOT_FOUND"
    /\ UNCHANGED <<today, leases, rent_payments, payment_records, transactions,
                   stripe_payments, next_id, requests, tenants, units>>

\* GET /leases/{id}/
RetrieveLease(l) ==
    /\ response' = "ok"
    /\ UNCHANGED <<today, leases, rent_payments, payment_records, transactions,
                   stripe_payments, next_id, requests, tenants, units>>

\* GET /rent-payments/{id}/
RetrieveRentPayment(r) ==
    /\ response' = "ok"
    /\ UNCHANGED <<today, leases, rent_payments, payment_records, transactions,
                   stripe_payments, next_id, requests, tenants, units>>

\* a detail route of LeaseViewSet called by user on id l: instance = self.get_object(),
\* then the body of the route
OnLease(user, l, route) == IF LeaseInQueryset(user, l) THEN route ELSE NotFound

\* a detail route of RentPaymentViewSet called by user on id r
OnRentPayment(user, r, route) == IF RentPaymentInQueryset(user, r) THEN route ELSE NotFound

\* the ids a request can name: the rows of the table and an id that was never handed out
LeaseIds == DOMAIN leases \cup {next_id.lease}
RentPaymentIds == DOMAIN rent_payments \cup {next_id.rent_payment}

\* the lease a user creates: one month from 2024-02-20, one RentPayment due on its first day
OwnershipLeaseInput(u) ==
    [start_date |-> Date(2024, 2, 20), end_date |-> Date(2024, 3, 19),
     rent_amount |-> 100001, rent_due_day |-> 20,
     late_fee_type |-> "fixed", late_fee_amount |-> 5000, late_fee_grace_days |-> 5,
     owner |-> u, tenant |-> u, unit |-> NoUnit, security_deposit |-> 0,
     security_deposit_paid |-> FALSE, renewal_term_months |-> 1]

\* the body of the PATCH requests
OwnershipPatch == [rent_amount |-> 100001]

\* the database holds one lease of user 1, created through LeaseCreateSerializer.create;
\* user 2 creates theirs in the run
InitOwnership ==
    /\ today = LedgerStart
    /\ LET made == CreatedLease(OwnershipLeaseInput(1), LedgerStart,
                                EmptyTable, EmptyTable, 1, 1)
       IN  /\ leases = made.leases
           /\ rent_payments = made.rows
           /\ next_id = [lease |-> 2, rent_payment |-> made.next, payment_record |-> 1,
                         transaction |-> 1, stripe_payment |-> 1]
    /\ payment_records = EmptyTable
    /\ transactions = EmptyTable
    /\ stripe_payments = EmptyTable
    /\ requests = NoRequests
    /\ response = "ok"
    /\ InitDirectory

NextOwnership ==
    \/ CreateLease(OwnershipLeaseInput(2))
    \/ \E u \in Users, l \in LeaseIds : OnLease(u, l, RetrieveLease(l))
    \/ \E u \in Users, l \in LeaseIds : OnLease(u, l, UpdateLease(l, OwnershipPatch, TRUE))
    \/ \E u \in Users, l \in LeaseIds : OnLease(u, l, DestroyLease(l))
    \/ \E u \in Users, l \in LeaseIds : OnLease(u, l, Terminate(l, today, "moved out"))
    \/ \E u \in Users, l \in LeaseIds : OnLease(u, l, Renew(l, RenewDefaults))
    \/ \E u \in Users, r \in RentPaymentIds : OnRentPayment(u, r, RetrieveRentPayment(r))
    \/ \E u \in Users, r \in RentPaymentIds : OnRentPayment(u, r, Record(r, 40000, today))
    \/ \E u \in Users, r \in RentPaymentIds : OnRentPayment(u, r, ApplyLateFeeEndpoint(r))
    \/ \E u \in Users, r \in RentPaymentIds : OnRentPayment(u, r, WaiveLateFee(r, "hardship"))

SpecOwnership == InitOwnership /\ [][NextOwnership]_vars

----------------------------------------------------------------------------
(* Claims on SpecOwnership *)

\* id l names no lease, a lease of another owner, or a soft-deleted lease
LeaseNotOf(u, l) ==
    \/ l \notin DOMAIN leases
    \/ leases[l].owner # u
    \/ leases[l].is_deleted

\* id r names no RentPayment, or one whose lease has another owner or is soft-deleted
RentPaymentNotOf(u, r) ==
    \/ r \notin DOMAIN rent_payments
    \/ leases[rent_payments[r].lease].owner # u
    \/ leases[rent_payments[r].lease].is_deleted

NothingWritten ==
    UNCHANGED <<today, leases, rent_payments, payment_records, transactions,
                stripe_payments, next_id, requests, tenants, units>>

\* C21: retrieve, update, delete, terminate and renew on a lease id, and retrieve,
\* record, apply_late_fee and waive_late_fee on a RentPayment id, called by a user on
\* an id that names nothing, an object of another owner or an object of a soft-deleted
\* lease, all answer NOT_FOUND and write nothing.
C21_ForeignIsNotFound ==
    [][\A u \in Users :
          /\ \A l \in LeaseIds :
                /\ LeaseNotOf(u, l)
                /\ \/ OnLease(u, l, RetrieveLease(l))
                   \/ OnLease(u, l, UpdateLease(l, OwnershipPatch, TRUE))
                   \/ OnLease(u, l, DestroyLease(l))
                   \/ OnLease(u, l, Terminate(l, today, "moved out"))
                   \/ OnLease(u, l, Renew(l, RenewDefaults))
                => response' = "NOT_FOUND" /\ NothingWritten
          /\ \A r \in RentPaymentIds :
                /\ RentPaymentNotOf(u, r)
                /\ \/ OnRentPayment(u, r, RetrieveRentPayment(r))
                   \/ OnRentPayment(u, r, Record(r, 40000, today))
                   \/ OnRentPayment(u, r, ApplyLateFeeEndpoint(r))
                   \/ OnRentPayment(u, r, WaiveLateFee(r, "hardship"))
                => response' = "NOT_FOUND" /\ NothingWritten]_vars

\* a request was answered NOT_FOUND while user 1 has a live lease with an unpaid
\* RentPayment and user 2 has a soft-deleted lease with a RentPayment
C21_Witness ==
    /\ response = "NOT_FOUND"
    /\ \E r \in DOMAIN rent_payments :
          /\ leases[rent_payments[r].lease].owner = 1
          /\ ~leases[rent_payments[r].lease].is_deleted
          /\ rent_payments[r].amount_paid = 0 /\ rent_payments[r].late_fee_applied = 0
    /\ \E r \in DOMAIN rent_payments :
          /\ leases[rent_payments[r].lease].owner = 2
          /\ leases[rent_payments[r].lease].is_deleted

----------------------------------------------------------------------------
(* SpecFailure: payment recordings one after the other, each of which may die at any *)
(* of its database statements.  record runs in autocommit mode: no view opens a       *)
(* transaction, so the statements already executed stay committed.                    *)

\* no recording is between its first and its last statement
NoneInFlight == \A w \in Workers : requests[w].pc \in {"idle", "done", "failed"}

\* a statement of the recording of worker w raises (the database or the process fails):
\* the exception leaves record, which catches nothing, and the request is answered 500
FailRecord(w) ==
    /\ requests[w].pc \in {"fetched", "inserted", "summed", "saved", "ledgered", "linked",
                           "summed_again"}
    /\ requests' = [requests EXCEPT ![w].pc = "failed"]
    /\ response' = "SERVER_ERROR"
    /\ UNCHANGED <<tenants, units, today, leases, rent_payments, payment_records, transactions,
                   stripe_payments, next_id>>

InitFailure == InitConcurrent

NextFailure ==
    \/ \E w \in Workers, r \in DOMAIN rent_payments, amount \in ConcurrentAmounts :
          NoneInFlight /\ StartRecord(w, r, amount, today)
    \/ \E w \in Workers : InsertRecord(w)
    \/ \E w \in Workers : ReadSiblings(w)
    \/ \E w \in Workers : WriteRentPayment(w)
    \/ \E w \in Workers : CreateTransaction(w)
    \/ \E w \in Workers : LinkRecord(w)
    \/ \E w \in Workers : FailRecord(w)

SpecFailure == InitFailure /\ [][NextFailure]_vars

----------------------------------------------------------------------------
(* Claims on SpecFailure *)

\* C22: a recording that fails part-way leaves the RentPayment, its PaymentRecords and
\* the ledger as they were before the request: the PaymentRecord it inserted and the
\* Transaction it created are not in the tables, and amount_paid is still the sum of
\* the RentPayment's PaymentRecords.
C22_FailedRecordingLeavesNothing ==
    \A w \in Workers :
        requests[w].pc = "failed"
        => /\ requests[w].p \notin DOMAIN payment_records
           /\ requests[w].t \notin DOMAIN transactions
           /\ rent_payments[requests[w].r].amount_paid
                  = RecordSum(payment_records, requests[w].r)

\* a recording failed after its INSERT: its PaymentRecord is in the table without a
\* Transaction, and the RentPayment still shows nothing paid
C22_RecordWithoutAggregate ==
    \E w \in Workers :
        /\ requests[w].pc = "failed"
        /\ requests[w].p \in DOMAIN payment_records
        /\ payment_records[requests[w].p].transaction = 0
        /\ rent_payments[requests[w].r].amount_paid = 0
        /\ rent_payments[requests[w].r].status = "pending"

----------------------------------------------------------------------------
(* SpecGateway: payment intents, the Stripe webhook with its three outcomes, and *)
(* payments recorded by hand on the same RentPayment                             *)

\* StripeWebhookView._handle_payment_failed with the handler of payment_intent.succeeded
\* pasted in
WebhookPaymentFailedAsSucceeded(s) == WebhookPaymentSucceeded(s)

\* StripeWebhookView._handle_payment_failed for the intent of stripe_payments row s
WebhookPaymentFailed(s) ==
    /\ s \in DOMAIN stripe_payments
    /\ stripe_payments' = [stripe_payments EXCEPT ![s].status = "failed"]
    /\ response' = "ok"
    /\ UNCHANGED <<tenants, units, today, leases, rent_payments, payment_records, transactions,
                   next_id, requests>>

WebhookTypes == {"payment_intent.succeeded", "payment_intent.payment_failed"}

\* StripeWebhookView.post for an event whose intent id is in no stripe_payments row:
\* StripePayment.DoesNotExist is caught in both handlers, the answer is 200
WebhookUnknownIntent(type) ==
    /\ type \in WebhookTypes
    /\ response' = "ok"
    /\ UNCHANGED <<tenants, units, today, leases, rent_payments, payment_records, transactions,
                   stripe_payments, next_id, requests>>

InitGateway == InitLedger

NextGateway ==
    \/ \E r \in DOMAIN rent_payments, amount \in ConcurrentAmounts : Record(r, amount, today)
    \/ \E r \in DOMAIN rent_payments, stripe_ok \in BOOLEAN : CreatePaymentIntent(r, stripe_ok)
    \/ \E s \in DOMAIN stripe_payments : WebhookPaymentSucceeded(s)
    \/ \E s \in DOMAIN stripe_payments : WebhookPaymentFailed(s)
    \/ \E type \in WebhookTypes : WebhookUnknownIntent(type)

SpecGateway == InitGateway /\ [][NextGateway]_vars

----------------------------------------------------------------------------
(* Claims on SpecGateway *)

\* no PaymentRecord and no Transaction is added or changed, and no RentPayment changes
\* its amount_paid, status or paid_date
LedgerUntouched ==
    /\ payment_records' = payment_records
    /\ transactions' = transactions
    /\ DOMAIN rent_payments' = DOMAIN rent_payments
    /\ \A r \in DOMAIN rent_payments :
          /\ rent_payments'[r].amount_paid = rent_payments[r].amount_paid
          /\ rent_payments'[r].status = rent_payments[r].status
          /\ rent_payments'[r].paid_date = rent_payments[r].paid_date

\* C23: a Stripe error while creating a payment intent, a payment_intent.payment_failed
\* webhook and a webhook for an unknown intent id create no PaymentRecord and no
\* Transaction and leave amount_paid, status and paid_date of every RentPayment unchanged.
C23_GatewayFailureKeepsLedger ==
    [][(\/ \E r \in DOMAIN rent_payments :
              CreatePaymentIntent(r, FALSE) /\ response' = "STRIPE_ERROR"
        \/ \E s \in DOMAIN stripe_payments : WebhookPaymentFailed(s)
        \/ \E type \in WebhookTypes : WebhookUnknownIntent(type))
       => LedgerUntouched]_vars

\* a payment_intent.payment_failed webhook has marked the intent of a RentPayment that
\* has a PaymentRecord and a Transaction
C23_Witness ==
    \E s \in DOMAIN stripe_payments :
        /\ stripe_payments[s].status = "failed"
        /\ RecordsOf(payment_records, stripe_payments[s].rent_payment) # {}
        /\ rent_payments[stripe_payments[s].rent_payment].status = "partial"
        /\ transactions # EmptyTable

----------------------------------------------------------------------------
(* SpecSweep: the rent ledger of Spec with the days passing and the two periodic *)
(* tasks that write to it running whenever they have work                        *)

FairSweep ==
    /\ WF_vars(Tick)
    /\ WF_vars(UpdateOverduePaymentStatus)
    /\ WF_vars(ApplyAutomaticLateFees)

SpecSweep == Init /\ [][Next]_vars /\ FairSweep

----------------------------------------------------------------------------
(* Claims on SpecSweep *)

\* RentPayment r of an active lease is unpaid past due_date + late_fee_grace_days, has no
\* fee and no waiver
UnpaidPastGrace(r) ==
    /\ r \in DOMAIN rent_payments
    /\ leases[rent_payments[r].lease].status = "active"
    /\ ~leases[rent_payments[r].lease].is_deleted
    /\ rent_payments[r].status \notin {"paid", "waived"}
    /\ rent_payments[r].late_fee_applied = 0
    /\ ~rent_payments[r].late_fee_waived
    /\ DaysBetween(today, rent_payments[r].due_date)
           > leases[rent_payments[r].lease].late_fee_grace_days

\* r has its late fee, or has left the rows the claim is about
FeeAppliedOrSettled(r) ==
    /\ r \in DOMAIN rent_payments
    /\ \/ rent_payments[r].late_fee_applied # 0
       \/ rent_payments[r].late_fee_waived
       \/ rent_payments[r].status \in {"paid", "waived"}
       \/ leases[rent_payments[r].lease].status # "active"
       \/ leases[rent_payments[r].lease].is_deleted

\* C24: with the periodic tasks running again and again, a RentPayment of an active
\* lease that stays unpaid beyond due_date + late_fee_grace_days without fee or waiver
\* eventually has a late fee applied.
C24_LateFeeEventuallyApplied ==
    \A r \in 1 .. MaxRentPaymentIds : UnpaidPastGrace(r) ~> FeeAppliedOrSettled(r)

\* a row that update_overdue_payment_status has marked overdue is past the grace period
\* without a fee
C24_OverdueWithoutFee ==
    \E r \in DOMAIN rent_payments :
        /\ UnpaidPastGrace(r)
        /\ rent_payments[r].status = "overdue"

\* the automatic sweep never applies a fee to a row in status overdue
OverdueRowsAreSkipped ==
    [][ApplyAutomaticLateFees
       => \A r \in DOMAIN rent_payments :
             rent_payments[r].status = "overdue"
                 => rent_payments'[r] = rent_payments[r]]_vars

----------------------------------------------------------------------------
(* Claims on Spec: waive_late_fee *)

\* C25: waive_late_fee succeeds on every RentPayment the caller can address, whatever
\* its status and fee; it sets late_fee_applied to 0, late_fee_waived to true and
\* late_fee_waived_reason to the given reason, and leaves amount_due, amount_paid,
\* status, paid_date and the PaymentRecords unchanged.
C25_WaiveFrame ==
    /\ [](\A r \in DOMAIN rent_payments : Visible(r) => ENABLED WaiveLateFee(r, "hardship"))
    /\ [][\A r \in DOMAIN rent_payments :
             WaiveLateFee(r, "hardship")
             => /\ response' = "ok"
                /\ rent_payments'[r].late_fee_applied = 0
                /\ rent_payments'[r].late_fee_waived
                /\ rent_payments'[r].late_fee_waived_reason = "hardship"
                /\ rent_payments'[r].amount_due = rent_payments[r].amount_due
                /\ rent_payments'[r].amount_paid = rent_payments[r].amount_paid
                /\ rent_payments'[r].status = rent_payments[r].status
                /\ rent_payments'[r].paid_date = rent_payments[r].paid_date
                /\ payment_records' = payment_records]_vars

\* a fee was waived on a row that is partial although its payments cover amount_due,
\* and on which the fee had been applied
C25_Witness ==
    \E r \in DOMAIN rent_payments :
        /\ rent_payments[r].late_fee_waived
        /\ rent_payments[r].late_fee_waived_reason = "hardship"
        /\ rent_payments[r].late_fee_applied = 0
        /\ rent_payments[r].status = "partial"
        /\ rent_payments[r].amount_paid >= rent_payments[r].amount_due
        /\ RecordsOf(payment_records, r) # {}

----------------------------------------------------------------------------
(* Claims on SpecLifecycle: the rows generate_rent_schedule creates *)

\* C26: every RentPayment that generate_rent_schedule creates is due inside
\* [start_date, end_date] of its lease on day min(rent_due_day, 28), with amount_due the
\* lease's rent_amount, status pending, amount_paid 0 and late_fee_applied 0; a month
\* whose due date is outside the range gets no row.
C26_CreatedRowsWellFormed ==
    [][\A k \in DOMAIN rent_payments' \ DOMAIN rent_payments :
          LET rp == rent_payments'[k]
              lease == leases'[rp.lease]
          IN  /\ DateLE(lease.start_date, rp.due_date)
              /\ DateLE(rp.due_date, lease.end_date)
              /\ rp.due_date.day = (IF lease.rent_due_day < 28 THEN lease.rent_due_day ELSE 28)
              /\ rp.amount_due = lease.rent_amount
              /\ rp.status = "pending"
              /\ rp.amount_paid = 0
              /\ rp.late_fee_applied = 0]_vars

\* a renewal running from 2024-03-31 to 2024-05-30 with rent due on the 5th has its
\* RentPayments for April and May and none for March
C26_Witness ==
    \E l \in DOMAIN leases :
        /\ leases[l].start_date = Date(2024, 3, 31)
        /\ leases[l].end_date = Date(2024, 5, 30)
        /\ leases[l].rent_due_day = 5
        /\ {rent_payments[k].due_date : k \in {j \in DOMAIN rent_payments :
                                                   rent_payments[j].lease = l}}
              = {Date(2024, 4, 5), Date(2024, 5, 5)}

----------------------------------------------------------------------------
(* Claims on SpecGateway: repeated delivery of payment_intent.succeeded *)

\* the payment intents created for RentPayment r
IntentsOf(r) == {s \in DOMAIN stripe_payments : stripe_payments[s].rent_payment = r}

\* the PaymentRecords the webhook has inserted for RentPayment r
OnlineRecordsOf(r) ==
    {p \in DOMAIN payment_records :
        payment_records[p].rent_payment = r /\ payment_records[p].payment_method = "online"}

\* the ledger Transactions the webhook has created
OnlineTransactions == {t \in DOMAIN transactions : transactions[t].payment_method = "online"}

\* C27: a payment intent results in at most one PaymentRecord and one Transaction,
\* however often its payment_intent.succeeded webhook is delivered: a RentPayment has
\* no more webhook PaymentRecords than intents, and the ledger no more webhook
\* Transactions than there are intents.
C27_OneRecordPerIntent ==
    /\ \A r \in DOMAIN rent_payments :
          Cardinality(OnlineRecordsOf(r)) <= Cardinality(IntentsOf(r))
    /\ Cardinality(OnlineTransactions) <= Cardinality(DOMAIN stripe_payments)

\* the webhook of one intent was delivered twice: two PaymentRecords of the intent's
\* amount, and amount_paid twice the amount
C27_PaidTwice ==
    \E s \in DOMAIN stripe_payments :
        LET r == stripe_payments[s].rent_payment
        IN  /\ IntentsOf(r) = {s}
            /\ Cardinality(OnlineRecordsOf(r)) = 2
            /\ Cardinality(OnlineTransactions) = 2
            /\ rent_payments[r].amount_paid = 2 * stripe_payments[s].amount

----------------------------------------------------------------------------
(* SpecOverlap: one payment recording and the fee requests of the other workers on the *)
(* same RentPayment, statement by statement.  apply_late_fee and waive_late_fee load   *)
(* the row with get_object() and later save every column of the object they hold.      *)

\* the worker that records; the others send fee requests
Recorder == 1

FeeRoutes == {"apply_late_fee", "waive_late_fee"}

\* views.py 132, 150: rent_payment = self.get_object()
StartFee(w, r, route) ==
    /\ requests[w].pc = "idle"
    /\ Visible(r)
    /\ requests' = [requests EXCEPT ![w] =
            [Idle EXCEPT !.pc = route, !.r = r, !.rent_payment = rent_payments[r]]]
    /\ UNCHANGED <<tenants, units, today, leases, rent_payments, payment_records, transactions,
                   stripe_payments, next_id, response>>

\* views.py 134-140, models.py 65-81: the rest of apply_late_fee on the object loaded
SaveAppliedFee(w) ==
    /\ requests[w].pc = "apply_late_fee"
    /\ LET rp == requests[w].rent_payment
           saved == ApplyLateFee(rp, leases[rp.lease], today)
       IN  IF rp.late_fee_applied > 0
           THEN /\ response' = "FEE_ALREADY_APPLIED"
                /\ requests' = [requests EXCEPT ![w].pc = "refused"]
                /\ UNCHANGED rent_payments
           ELSE /\ response' = "ok"
                /\ requests' = [requests EXCEPT ![w].pc = "applied", ![w].rent_payment = saved]
                /\ rent_payments' = IF LateFeeSettled(rp) THEN rent_payments
                                    ELSE [rent_payments EXCEPT ![requests[w].r] = saved]
    /\ UNCHANGED <<tenants, units, today, leases, payment_records, transactions, stripe_payments,
                   next_id>>

\* views.py 152-157: the rest of waive_late_fee on the object loaded
SaveWaivedFee(w, reason) ==
    /\ requests[w].pc = "waive_late_fee"
    /\ LET saved == [requests[w].rent_payment EXCEPT
                        !.late_fee_waived = TRUE, !.late_fee_waived_reason = reason,
                        !.late_fee_applied = 0]
       IN  /\ rent_payments' = [rent_payments EXCEPT ![requests[w].r] = saved]
           /\ requests' = [requests EXCEPT ![w].pc = "waived", ![w].rent_payment = saved]
    /\ response' = "ok"
    /\ UNCHANGED <<tenants, units, today, leases, payment_records, transactions, stripe_payments,
                   next_id>>

InitOverlap == InitConcurrent

NextOverlap ==
    \/ \E r \in DOMAIN rent_payments, amount \in ConcurrentAmounts :
          StartRecord(Recorder, r, amount, today)
    \/ InsertRecord(Recorder)
    \/ ReadSiblings(Recorder)
    \/ WriteRentPayment(Recorder)
    \/ CreateTransaction(Recorder)
    \/ LinkRecord(Recorder)
    \/ \E w \in Workers \ {Recorder}, r \in DOMAIN rent_payments, route \in FeeRoutes :
          StartFee(w, r, route)
    \/ \E w \in Workers \ {Recorder} : SaveAppliedFee(w)
    \/ \E w \in Workers \ {Recorder} : SaveWaivedFee(w, "hardship")

SpecOverlap == InitOverlap /\ [][NextOverlap]_vars

----------------------------------------------------------------------------
(* Claims on SpecOverlap *)

\* every request that was started has run to its end
AllRequestsFinished ==
    \A w \in Workers : requests[w].pc \in {"idle", "done", "applied", "waived", "refused"}

\* C28: when a fee request and a recording on the same RentPayment overlap, then after
\* both have finished the row holds the fee fields the fee request saved and the
\* amount_paid the recording's PaymentRecords add up to.
C28_BothEffectsSurvive ==
    AllRequestsFinished
    => \A w \in Workers \ {Recorder} :
          (requests[w].pc \in {"applied", "waived"} /\ requests[Recorder].pc = "done"
              /\ requests[Recorder].r = requests[w].r)
          => LET rp == rent_payments[requests[w].r]
             IN  /\ rp.late_fee_applied = requests[w].rent_payment.late_fee_applied
                 /\ rp.late_fee_waived = requests[w].rent_payment.late_fee_waived
                 /\ rp.amount_paid = RecordSum(payment_records, requests[w].r)

\* a waiver and a recording have both finished: the waiver is gone from the row
C28_WaiverOverwritten ==
    \E w \in Workers \ {Recorder} :
        /\ requests[w].pc = "waived"
        /\ requests[Recorder].pc = "done"
        /\ ~rent_payments[requests[w].r].late_fee_waived
        /\ rent_payments[requests[w].r].amount_paid = requests[Recorder].amount

\* a waiver and a recording have both finished: the payment is gone from amount_paid
C28_PaymentOverwritten ==
    \E w \in Workers \ {Recorder} :
        /\ requests[w].pc = "waived"
        /\ requests[Recorder].pc = "done"
        /\ rent_payments[requests[w].r].late_fee_waived
        /\ rent_payments[requests[w].r].amount_paid = 0
        /\ RecordsOf(payment_records, requests[w].r) # {}

----------------------------------------------------------------------------
(* SpecTasks: the periodic tasks next to payments, a termination and a soft delete *)

TaskAmounts == {40000, 100001}

InitTasks == InitLedger

NextTasks ==
    \/ \E r \in DOMAIN rent_payments, amount \in TaskAmounts : Record(r, amount, today)
    \/ \E l \in DOMAIN leases : Terminate(l, today, "moved out")
    \/ \E l \in DOMAIN leases : DestroyLease(l)
    \/ UpdateOverduePaymentStatus
    \/ ApplyAutomaticLateFees
    \/ Tick

SpecTasks == InitTasks /\ [][NextTasks]_vars

----------------------------------------------------------------------------
(* Claims on SpecTasks *)

\* the lease of RentPayment r is not active or is soft-deleted, or r is paid or waived
OutOfTheTasksReach(r) ==
    \/ leases[rent_payments[r].lease].status # "active"
    \/ leases[rent_payments[r].lease].is_deleted
    \/ rent_payments[r].status \in {"paid", "waived"}

\* C29: update_overdue_payment_status and apply_automatic_late_fees never change a
\* RentPayment whose lease is not active or is soft-deleted, nor one that is paid or
\* waived; update_overdue_payment_status changes only pending rows due before today,
\* and of those only the status, to overdue.
C29_TasksFrame ==
    [][/\ (UpdateOverduePaymentStatus \/ ApplyAutomaticLateFees)
          => /\ DOMAIN rent_payments' = DOMAIN rent_payments
             /\ \A r \in DOMAIN rent_payments :
                   OutOfTheTasksReach(r) => rent_payments'[r] = rent_payments[r]
       /\ UpdateOverduePaymentStatus
          => \A r \in DOMAIN rent_payments :
                rent_payments'[r] # rent_payments[r]
                => /\ rent_payments[r].status = "pending"
                   /\ DateLT(rent_payments[r].due_date, today)
                   /\ rent_payments'[r] = [rent_payments[r] EXCEPT !.status = "overdue"]]_vars

\* past the grace period: a paid row without a fee, and a pending row of a terminated
\* or soft-deleted lease that was never marked overdue
C29_Witness ==
    /\ DaysBetween(today, LedgerStart) = MaxDays
    /\ \E r \in DOMAIN rent_payments :
          /\ rent_payments[r].late_fee_applied = 0
          /\ \/ rent_payments[r].status = "paid"
             \/ /\ rent_payments[r].status = "pending"
                /\ \/ leases[rent_payments[r].lease].status = "terminated"
                   \/ leases[rent_payments[r].lease].is_deleted

====
